---- MODULE Spec2Model ----
(***************************************************************************)
(* Model of the production pipeline of App.tsx (scene planning, image      *)
(* batch, single image, TTS batch, upscale batch, the operations of a      *)
(* card, history load, cancellation, auto-save) and of                     *)
(* analyzeSegmentsForPrompts and generateImage of the Gemini service.      *)
(*                                                                         *)
(* A handler is an async function: it runs to completion between two       *)
(* awaits, so one action is the code from one await to the next.  The      *)
(* identifier generatedMedia inside a handler is the value captured when   *)
(* the handler was invoked (the closure of that render); the functional    *)
(* updates setGeneratedMedia(prev => ...) act on the latest store.         *)
(***************************************************************************)
EXTENDS Integers, Sequences, FiniteSets, TLC

VARIABLES
    currentStep,        \* App.tsx:25
    introScript,        \* App.tsx:28
    bodyScript,         \* App.tsx:29
    generatedMedia,     \* App.tsx:32, the Scene Store
    googleApiKey,       \* App.tsx:35 (TRUE: a key is set)
    elevenLabsKey,      \* App.tsx:36
    falAiKey,           \* App.tsx:38
    loadingType,        \* App.tsx:41
    error,              \* App.tsx:44
    showSettings,       \* App.tsx:48
    controllers,        \* the AbortControllers created so far: their aborted flags
    abortControllerRef, \* App.tsx:45, 0 is null
    projects,           \* what saveProject has received, in order
    plan,               \* the invocation of handleAnalyzeAndPlan in flight
    prod,               \* the invocation of handleStartProduction in flight
    single,             \* the invocation of handleGenerateSingleImage in flight
    tts,                \* the invocation of handleGenerateAllTTS in flight
    ups,                \* the invocation of handleUpscaleAllImages in flight
    ops,                \* the single-scene invocations (upscale, video, TTS) in flight
    call,               \* the invocation of generateImage of the Gemini service in flight
    seg,                \* the evaluation of splitAndGroupSentences under check
    zip,                \* the invocation of handleFinalZipDownload in flight
    downloads,          \* the archives handed to the browser, in order
    parse,              \* the evaluation of robustJsonParse under check
    job,                \* the invocation of generateVideoFromImage in flight
    world,              \* the external services: which calls fail
    hist                \* observations of the run (history, read by no handler)

vars == <<currentStep, introScript, bodyScript, generatedMedia, googleApiKey,
          elevenLabsKey, falAiKey, loadingType, error, showSettings, controllers,
          abortControllerRef, projects, plan, prod, single, tts, ups, ops, call, seg,
          zip, downloads, parse, job, world, hist>>

(***************************************************************************)
(* Bounds of the model.                                                    *)
(***************************************************************************)
MaxScenes == 3
MaxBatchRuns == 1
MaxSingleRuns == 1
MaxPlanRuns == 2
MaxLoads == 1

NULL == "null"

Range(s) == {s[k] : k \in DOMAIN s}

(***************************************************************************)
(* Scene Store.                                                            *)
(***************************************************************************)
\* one element of plannedMedia
PlannedScene(data, position, introCount) ==
    [ originalScriptSegment |-> data.scriptSegment,
      prompt                |-> data.imagePrompt,
      videoMotionPrompt     |-> data.videoMotionPrompt,
      mediaUrl              |-> "",
      index                 |-> position,
      isProcessing          |-> FALSE,
      isUpscaling           |-> FALSE,
      isIntro               |-> position - 1 < introCount,
      audioUrl              |-> "",
      videoUrl              |-> "",
      isVideoProcessing     |-> FALSE,
      isAudioProcessing     |-> FALSE ]

\* prev.map(p => p.index === index ? { ...p, isProcessing: b } : p)
SetProcessing(media, idx, b) ==
    [k \in DOMAIN media |->
        IF media[k].index = idx THEN [media[k] EXCEPT !.isProcessing = b] ELSE media[k]]

\* faulty variant of SetImage (the properties must reject it): the scene is rebuilt
\* as { index, mediaUrl: url, ... } and its prompt is lost
SetImageLosingPrompt(media, idx, url) ==
    [k \in DOMAIN media |->
        IF media[k].index = idx
        THEN [media[k] EXCEPT !.mediaUrl = url, !.isProcessing = FALSE, !.prompt = ""]
        ELSE media[k]]

\* prev.map(p => p.index === index ? { ...p, mediaUrl: url, isProcessing: false } : p)
SetImage(media, idx, url) ==
    [k \in DOMAIN media |->
        IF media[k].index = idx
        THEN [media[k] EXCEPT !.mediaUrl = url, !.isProcessing = FALSE]
        ELSE media[k]]

\* the argument of saveProject; script: introScript + "\n\n" + bodyScript
SavedProject(media) ==
    [ script |-> introScript \o <<"\n", "\n">> \o bodyScript, media |-> media,
      falAiKey |-> falAiKey ]

\* the resource reference generateImage returns: a non-empty data: URL
ImageUrl == "data:image"

\* the message of the error generateImage throws for a scene
ImageError(idx) == "image " \o ToString(idx)

\* generateImage(item.prompt) of scene idx: TRUE when it resolves
ImageSucceeds(idx) == idx \notin world.failImage

\* generatedMedia.find(p => p.index === index)
Find(media, idx) == media[CHOOSE k \in DOMAIN media : media[k].index = idx]

Indices(media) == {media[k].index : k \in DOMAIN media}

(***************************************************************************)
(* splitAndGroupSentences.  Texts are sequences of characters.             *)
(***************************************************************************)
Whitespace == {" ", "\n"}
Terminators == {".", "!", "?"}
Quotes == {"'", "\""}

RECURSIVE TrimLeft(_)
TrimLeft(s) ==
    IF s # <<>> /\ Head(s) \in Whitespace THEN TrimLeft(Tail(s)) ELSE s

RECURSIVE TrimRight(_)
TrimRight(s) ==
    IF s # <<>> /\ s[Len(s)] \in Whitespace
    THEN TrimRight(SubSeq(s, 1, Len(s) - 1))
    ELSE s

\* String.prototype.trim
trim(s) == TrimRight(TrimLeft(s))

\* the length of the longest prefix of s made of characters of set
RECURSIVE PrefixLen(_, _)
PrefixLen(s, set) ==
    IF s # <<>> /\ Head(s) \in set THEN 1 + PrefixLen(Tail(s), set) ELSE 0

\* the length of the longest prefix of s made of characters outside set
RECURSIVE PrefixLenNot(_, _)
PrefixLenNot(s, set) ==
    IF s # <<>> /\ Head(s) \notin set THEN 1 + PrefixLenNot(Tail(s), set) ELSE 0

Drop(s, n) == SubSeq(s, n + 1, Len(s))

\* text.split(/\n\s*\n|\n/): a separator starts at a newline and reaches the last
\* newline of the whitespace that follows it
RECURSIVE SplitParagraphs(_)
SplitParagraphs(text) ==
    LET n == PrefixLenNot(text, {"\n"}) IN
    IF n = Len(text)
    THEN <<text>>
    ELSE LET rest == Drop(text, n + 1)
             ws   == PrefixLen(rest, Whitespace)
             nl   == {k \in 1..ws : rest[k] = "\n"}
             sep  == IF nl = {} THEN 0 ELSE CHOOSE k \in nl : \A j \in nl : j <= k
         IN  <<SubSeq(text, 1, n)>> \o SplitParagraphs(Drop(rest, sep))

\* paragraph.match(/[^.!?]+[.!?]+["']?|[^.!?]+$/g): the matches, left to right
RECURSIVE MatchSentences(_)
MatchSentences(p) ==
    IF p = <<>> THEN <<>>
    ELSE LET n == PrefixLenNot(p, Terminators) IN
         IF n = 0 THEN MatchSentences(Tail(p))
         ELSE IF n = Len(p) THEN <<p>>
         ELSE LET t == PrefixLen(Drop(p, n), Terminators)
                  q == IF n + t < Len(p) /\ p[n + t + 1] \in Quotes THEN 1 ELSE 0
              IN  <<SubSeq(p, 1, n + t + q)>> \o MatchSentences(Drop(p, n + t + q))

\* sentences.map(s => s.trim()).filter(s => s.length > 0), with the || [paragraph]
cleanedSentences(paragraph) ==
    LET matches   == MatchSentences(paragraph)
        sentences == IF matches = <<>> THEN <<paragraph>> ELSE matches
        trimmed   == [k \in DOMAIN sentences |-> trim(sentences[k])]
    IN  SelectSeq(trimmed, LAMBDA x : x # <<>>)

\* currentGroup.join(' ')
RECURSIVE JoinSpace(_)
JoinSpace(group) ==
    IF group = <<>> THEN <<>>
    ELSE IF Len(group) = 1 THEN group[1]
    ELSE group[1] \o <<" ">> \o JoinSpace(Tail(group))

\* faulty variant of GroupSentences (the properties must reject it): > for >=
RECURSIVE GroupSentencesLate(_, _, _)
GroupSentencesLate(sentences, currentGroup, maxGroupSize) ==
    IF sentences = <<>>
    THEN IF Len(currentGroup) > 0 THEN <<JoinSpace(currentGroup)>> ELSE <<>>
    ELSE LET g == Append(currentGroup, Head(sentences)) IN
         IF Len(g) > maxGroupSize
         THEN <<JoinSpace(g)>> \o GroupSentencesLate(Tail(sentences), <<>>, maxGroupSize)
         ELSE GroupSentencesLate(Tail(sentences), g, maxGroupSize)

\* the forEach over the sentences of one paragraph, and the flush of the remainder
RECURSIVE GroupSentences(_, _, _)
GroupSentences(sentences, currentGroup, maxGroupSize) ==
    IF sentences = <<>>
    THEN IF Len(currentGroup) > 0 THEN <<JoinSpace(currentGroup)>> ELSE <<>>
    ELSE LET g == Append(currentGroup, Head(sentences)) IN
         IF Len(g) >= maxGroupSize
         THEN <<JoinSpace(g)>> \o GroupSentences(Tail(sentences), <<>>, maxGroupSize)
         ELSE GroupSentences(Tail(sentences), g, maxGroupSize)

RECURSIVE GroupParagraphs(_, _)
GroupParagraphs(paragraphs, maxGroupSize) ==
    IF paragraphs = <<>> THEN <<>>
    ELSE GroupSentences(cleanedSentences(Head(paragraphs)), <<>>, maxGroupSize)
            \o GroupParagraphs(Tail(paragraphs), maxGroupSize)

splitAndGroupSentences(text, maxGroupSize) ==
    IF text = <<>> THEN <<>>
    ELSE GroupParagraphs(SelectSeq(SplitParagraphs(text), LAMBDA x : trim(x) # <<>>),
                         maxGroupSize)

\* the group sizes of the two call sites of handleAnalyzeAndPlan
IntroGroupSize == 2
BodyGroupSize == 4

(***************************************************************************)
(* The script texts the model draws from: paragraphs of 0..MaxSentences    *)
(* sentences "a.", a paragraph without sentence being a blank, joined by   *)
(* newlines.                                                               *)
(***************************************************************************)
MaxSentences == 3
MaxParagraphs == 2

RECURSIVE ParagraphOf(_)
ParagraphOf(k) ==
    IF k = 0 THEN <<" ">>
    ELSE IF k = 1 THEN <<"a", ".">>
    ELSE <<"a", ".", " ">> \o ParagraphOf(k - 1)

RECURSIVE TextOf(_)
TextOf(shape) ==
    IF shape = <<>> THEN <<>>
    ELSE IF Len(shape) = 1 THEN ParagraphOf(shape[1])
    ELSE ParagraphOf(shape[1]) \o <<"\n">> \o TextOf(Tail(shape))

\* a paragraph is blank, or holds one sentence, or MaxSentences sentences
SentenceCounts == {0, 1, MaxSentences}

Shapes(maxLen) == UNION {[1..n -> SentenceCounts] : n \in 0..maxLen}

IntroTexts == {TextOf(sh) : sh \in Shapes(MaxParagraphs)}
BodyTexts == {TextOf(sh) : sh \in Shapes(1)}

(***************************************************************************)
(* The evaluation of splitAndGroupSentences on its own: every text of at   *)
(* most MaxTextLen characters of Alphabet and every text of IntroTexts,    *)
(* with every group size of 1..MaxGroupSize.                               *)
(***************************************************************************)
MaxTextLen == 4
MaxGroupSize == 3

Alphabet == {"a", ".", " ", "\n", "'"}

SegTexts == UNION {[1..n -> Alphabet] : n \in 0..MaxTextLen} \cup IntroTexts

IdleSeg == [ pc |-> "idle", text |-> <<>>, maxGroupSize |-> 1, out |-> <<>> ]

\* splitAndGroupSentences(text, maxGroupSize) is called and returns
EvalSegmenter ==
    /\ seg.pc = "idle"
    /\ seg' = [seg EXCEPT !.pc = "done",
                          !.out = splitAndGroupSentences(seg.text, seg.maxGroupSize)]
    /\ UNCHANGED <<currentStep, introScript, bodyScript, generatedMedia, googleApiKey,
                   elevenLabsKey, falAiKey, loadingType, error, showSettings,
                   controllers, abortControllerRef, projects, plan, prod, single, tts,
                   ups, ops, call, zip, downloads, parse, job, world, hist>>

(***************************************************************************)
(* generateImage of the Gemini service and its callWithRetry.              *)
(***************************************************************************)
\* retries = 3, the default of callWithRetry
Retries == 3

\* setTimeout(r, 2000)
RetryDelayMs == 2000

\* how one call of ai.models.generateContent settles: it resolves with a response
\* that holds an inlineData part ("payload") or none ("empty"), or it rejects with
\* an error: no connection, quota exceeded, server error
Rejections == {"network", "quota", "server"}
CallOutcomes == {"payload", "empty"} \cup Rejections

\* new Error("이미지 생성 도중 오류가 발생했습니다.")
NoImageError == "no image"

\* the data: URL built from the response of the n-th call
DataUrl(n) == "data:image/" \o ToString(n)

IdleCall ==
    [ pc |-> "idle", retries |-> 0, delays |-> <<>>, log |-> <<>>,
      result |-> NULL, thrown |-> NULL ]

\* faulty variant of MayRetry (the properties must reject it): >= for >
MayRetryOnceMore(retries) == retries >= 0

\* if (retries > 0)
MayRetry(retries) == retries > 0

\* generateImage(prompt) is invoked: callWithRetry(fn) calls fn() the first time
generateImage ==
    /\ call.pc = "idle"
    /\ call' = [IdleCall EXCEPT !.pc = "calling", !.retries = Retries]
    /\ UNCHANGED <<currentStep, introScript, bodyScript, generatedMedia, googleApiKey,
                   elevenLabsKey, falAiKey, loadingType, error, showSettings,
                   controllers, abortControllerRef, projects, plan, prod, single, tts,
                   ups, ops, seg, zip, downloads, parse, job, world, hist>>

\* the call of generateContent in flight settles.  A rejection is caught by
\* callWithRetry, which waits and calls again while retries are left and rethrows
\* otherwise; a response leaves callWithRetry and lines 113-115 return its image or
\* throw.
ContentSettles(outcome) ==
    /\ call.pc = "calling"
    /\ LET log == Append(call.log, outcome) IN
       call' = IF outcome \in Rejections
               THEN IF MayRetry(call.retries)
                    THEN [call EXCEPT !.pc = "waiting", !.log = log]
                    ELSE [call EXCEPT !.pc = "threw", !.log = log, !.thrown = outcome]
               ELSE IF outcome = "payload"
                    THEN [call EXCEPT !.pc = "returned", !.log = log,
                                      !.result = DataUrl(Len(log))]
                    ELSE [call EXCEPT !.pc = "threw", !.log = log,
                                      !.thrown = NoImageError]
    /\ UNCHANGED <<currentStep, introScript, bodyScript, generatedMedia, googleApiKey,
                   elevenLabsKey, falAiKey, loadingType, error, showSettings,
                   controllers, abortControllerRef, projects, plan, prod, single, tts,
                   ups, ops, seg, zip, downloads, parse, job, world, hist>>

\* the timer of line 14 fires: callWithRetry(fn, retries - 1) calls fn() again
RetryTimerFires ==
    /\ call.pc = "waiting"
    /\ call' = [call EXCEPT !.pc = "calling", !.retries = @ - 1,
                            !.delays = Append(@, RetryDelayMs)]
    /\ UNCHANGED <<currentStep, introScript, bodyScript, generatedMedia, googleApiKey,
                   elevenLabsKey, falAiKey, loadingType, error, showSettings,
                   controllers, abortControllerRef, projects, plan, prod, single, tts,
                   ups, ops, seg, zip, downloads, parse, job, world, hist>>

(***************************************************************************)
(* analyzeSegmentsForPrompts and handleAnalyzeAndPlan.                     *)
(***************************************************************************)
batchSize == 4

MissingScript == <<"#">>
DefaultMotion == "Simple 2D animation slide."

\* an item of a parsed response; a field that is absent is empty (|| treats both alike)
Item(script, korean, visual, motion) ==
    [ scriptSegment |-> script, korean_segment |-> korean, text |-> <<>>,
      image_prompt |-> visual, imagePrompt |-> "",
      motion_prompt |-> "", videoMotionPrompt |-> motion ]

\* what the analysis service may answer to one batch: the call rejects ("throw"),
\* the text does not parse ("malformed"), or the text parses to an array: one item
\* per scene text ("echo"), the same without its last item ("short"), items that
\* carry korean_segment and no prompt ("alias"), or items that carry the prompts and
\* no text field ("bare")
Outcomes == {"throw", "malformed", "echo", "short", "alias", "bare"}

ResponseData(outcome, currentBatch) ==
    CASE outcome = "echo" ->
            [k \in DOMAIN currentBatch |-> Item(currentBatch[k], <<>>, "p", "m")]
      [] outcome = "short" ->
            [k \in 1..(Len(currentBatch) - 1) |-> Item(currentBatch[k], <<>>, "p", "m")]
      [] outcome = "alias" ->
            [k \in DOMAIN currentBatch |-> Item(<<>>, currentBatch[k], "", "")]
      [] outcome = "bare" ->
            [k \in DOMAIN currentBatch |-> Item(<<>>, <<>>, "p", "m")]

\* the message of the error a failed batch throws
AnalysisError(outcome) ==
    IF outcome = "throw" THEN "analysis call failed" ELSE "malformed response"

\* the await of generateContent rejects, or robustJsonParse throws
BatchFails(outcome) == outcome \in {"throw", "malformed"}

\* data.map((item) => ({ scriptSegment: ..., imagePrompt: ..., videoMotionPrompt: ... }))
normalizedData(data) ==
    [k \in DOMAIN data |->
        [ scriptSegment |->
              IF data[k].scriptSegment # <<>> THEN data[k].scriptSegment
              ELSE IF data[k].korean_segment # <<>> THEN data[k].korean_segment
              ELSE IF data[k].text # <<>> THEN data[k].text
              ELSE MissingScript,
          imagePrompt |->
              IF data[k].image_prompt # "" THEN data[k].image_prompt
              ELSE data[k].imagePrompt,
          videoMotionPrompt |->
              IF data[k].motion_prompt # "" THEN data[k].motion_prompt
              ELSE IF data[k].videoMotionPrompt # "" THEN data[k].videoMotionPrompt
              ELSE DefaultMotion ]]

\* segments.slice(i, i + batchSize)
currentBatch(segments, i) ==
    SubSeq(segments, i + 1, IF i + batchSize < Len(segments) THEN i + batchSize
                            ELSE Len(segments))

\* faulty variant of StatusUpdate (the properties must reject it): the count of the
\* last batch is not capped by the number of segments
StatusUpdateUncapped(i, segments) == <<i + batchSize, Len(segments)>>

\* onStatusUpdate?.(`... (${Math.min(i + batchSize, segments.length)}/${segments.length})`)
StatusUpdate(i, segments) ==
    <<IF i + batchSize < Len(segments) THEN i + batchSize ELSE Len(segments),
      Len(segments)>>

\* faulty variant of plannedMedia (the properties must reject it): index: index
plannedMediaZeroBased(sceneData, introCount) ==
    [k \in DOMAIN sceneData |-> PlannedScene(sceneData[k], k - 1, introCount)]

\* sceneData.map((data, index) => ({ ... }))
plannedMedia(sceneData, introCount) ==
    [k \in DOMAIN sceneData |-> PlannedScene(sceneData[k], k, introCount)]

\* the texts typed into the hook textarea: one sentence, three sentences
RunTexts == {TextOf(<<1>>), TextOf(<<3>>)}

\* step 3 is reached with the store `media`: its length is noted the first time
ReachesProduction(h, media) ==
    IF h.confirmedN = -1 THEN [h EXCEPT !.confirmedN = Len(media)] ELSE h

IdlePlan ==
    [ pc |-> "idle", segments |-> <<>>, introCount |-> 0, i |-> 0, results |-> <<>> ]

ErrNoScript == "no script"
ErrNoKey == "no Gemini key"

\* faulty variant of NoScript (the properties must reject it): the texts are not trimmed
NoScriptUntrimmed(intro, body) == intro = <<>> /\ body = <<>>

\* !introScript.trim() && !bodyScript.trim()
NoScript(intro, body) == trim(intro) = <<>> /\ trim(body) = <<>>

\* faulty variant of CatchPlanError (the properties must reject it): the scenes analysed before the failure are kept
CatchPlanErrorKeepsPartial(media, p) == plannedMedia(p.results, p.introCount)

\* the catch of handleAnalyzeAndPlan leaves the store alone
CatchPlanError(media, p) == media

\* lines 143-163 once analyzeSegmentsForPrompts has returned sceneData
PlanCommits(sceneData, introCount, h) ==
    /\ generatedMedia' = plannedMedia(sceneData, introCount)
    /\ currentStep' = 2
    /\ loadingType' = "none"
    /\ plan' = IdlePlan
    /\ hist' = h

\* lines 112-143: the click on Next Step at step 1, up to the first await
handleAnalyzeAndPlan ==
    /\ currentStep = 1
    /\ plan.pc = "idle"
    /\ hist.planRuns < MaxPlanRuns
    /\ LET h == [hist EXCEPT !.planRuns = @ + 1, !.okBatches = 0, !.planFailed = FALSE,
                             !.analyzed = <<>>, !.sent = <<>>, !.progress = <<>>]
       IN
       IF NoScript(introScript, bodyScript)
       THEN /\ error' = ErrNoScript
            /\ hist' = h
            /\ UNCHANGED <<generatedMedia, currentStep, loadingType, showSettings,
                           controllers, abortControllerRef, plan>>
       ELSE IF ~googleApiKey
       THEN /\ error' = ErrNoKey
            /\ showSettings' = TRUE
            /\ hist' = h
            /\ UNCHANGED <<generatedMedia, currentStep, loadingType, controllers,
                           abortControllerRef, plan>>
       ELSE LET introSegments == splitAndGroupSentences(introScript, IntroGroupSize)
                bodySegments  == splitAndGroupSentences(bodyScript, BodyGroupSize)
                allSegments   == introSegments \o bodySegments
            IN  /\ error' = NULL
                /\ controllers' = Append(controllers, FALSE)
                /\ abortControllerRef' = Len(controllers) + 1
                /\ showSettings' = showSettings
                /\ IF allSegments = <<>>
                   THEN PlanCommits(<<>>, Len(introSegments), h)
                   ELSE /\ loadingType' = "planning"
                        /\ plan' = [ pc |-> "analyze", segments |-> allSegments,
                                     introCount |-> Len(introSegments), i |-> 0,
                                     results |-> <<>> ]
                        /\ hist' = [h EXCEPT !.analyzed = allSegments,
                                             !.sent = <<currentBatch(allSegments, 0)>>]
                        /\ UNCHANGED <<generatedMedia, currentStep>>
    /\ UNCHANGED <<introScript, bodyScript, ops, call, seg, zip, downloads, parse, job,
                   googleApiKey, elevenLabsKey, falAiKey, projects, prod, single, tts,
                   ups, world>>

\* One turn of the loop of analyzeSegmentsForPrompts: the external call of the batch
\* at plan.i settles with `outcome`.  A failure is thrown to the catch of
\* handleAnalyzeAndPlan; after the last batch the results are returned and committed.
AnalyzerBatch(outcome) ==
    /\ plan.pc = "analyze"
    /\ LET h == [hist EXCEPT !.calls = @ + 1] IN
       IF BatchFails(outcome)
       THEN /\ error' = AnalysisError(outcome)
            /\ generatedMedia' = CatchPlanError(generatedMedia, plan)
            /\ loadingType' = "none"
            /\ plan' = IdlePlan
            /\ hist' = [h EXCEPT !.planFailed = TRUE]
            /\ UNCHANGED currentStep
       ELSE LET data    == ResponseData(outcome, currentBatch(plan.segments, plan.i))
                results == plan.results \o normalizedData(data)
                h2      == [h EXCEPT !.okBatches = @ + 1,
                                     !.progress =
                                         Append(@, StatusUpdate(plan.i, plan.segments))]
            IN  /\ error' = error
                /\ IF plan.i + batchSize < Len(plan.segments)
                   THEN /\ plan' = [plan EXCEPT !.i = @ + batchSize, !.results = results]
                        /\ hist' =
                             [h2 EXCEPT !.sent = Append(@,
                                 currentBatch(plan.segments, plan.i + batchSize))]
                        /\ UNCHANGED <<generatedMedia, currentStep, loadingType>>
                   ELSE PlanCommits(results, plan.introCount, h2)
    /\ UNCHANGED <<introScript, bodyScript, ops, call, seg, zip, downloads, parse, job,
                   googleApiKey, elevenLabsKey, falAiKey, showSettings, controllers,
                   abortControllerRef, projects, prod, single, tts, ups, world>>

\* line 167: Next Step at step 2
handleConfirmPlan ==
    /\ currentStep = 2
    /\ currentStep' = 3
    /\ hist' = ReachesProduction(hist, generatedMedia)
    /\ UNCHANGED <<introScript, bodyScript, ops, call, seg, zip, downloads, parse, job,
                   generatedMedia, googleApiKey, elevenLabsKey, falAiKey, loadingType,
                   error, showSettings, controllers, abortControllerRef, projects,
                   plan, prod, single, tts, ups, world>>

\* line 460: typing in the hook textarea of step 1
EditIntroScript ==
    /\ currentStep = 1
    /\ \E intro \in RunTexts :
         /\ intro # introScript
         /\ introScript' = intro
    /\ UNCHANGED <<currentStep, bodyScript, ops, call, seg, zip, downloads, parse, job,
                   generatedMedia, googleApiKey, elevenLabsKey, falAiKey, loadingType,
                   error, showSettings, controllers, abortControllerRef, projects,
                   plan, prod, single, tts, ups, world, hist>>

\* lines 433-440: a project of the history list is loaded
handleHistoryLoad(p) ==
    /\ hist.loads < MaxLoads
    /\ introScript' = p.script
    /\ bodyScript' = <<>>
    /\ generatedMedia' = p.media
    /\ falAiKey' = p.falAiKey
    /\ currentStep' = 3
    /\ hist' = [ReachesProduction(hist, p.media) EXCEPT !.loads = @ + 1]
    /\ UNCHANGED <<ops, call, seg, zip, downloads, parse, job, googleApiKey,
                   elevenLabsKey, loadingType, error, showSettings, controllers,
                   abortControllerRef, projects, plan, prod, single, tts, ups, world>>

\* line 627: the Previous button
PreviousStep ==
    /\ currentStep > 1
    /\ currentStep' = currentStep - 1
    /\ UNCHANGED <<introScript, bodyScript, ops, call, seg, zip, downloads, parse, job,
                   generatedMedia, googleApiKey, elevenLabsKey, falAiKey, loadingType,
                   error, showSettings, controllers, abortControllerRef, projects,
                   plan, prod, single, tts, ups, world, hist>>

(***************************************************************************)
(* handleStartProduction: the image batch.                                 *)
(***************************************************************************)
IdleProd ==
    [ pc |-> "idle", media |-> <<>>, pendingItems |-> <<>>, pos |-> 0,
      completedCount |-> 0, controller |-> 0 ]

\* faulty variant of pendingItems (the properties must reject it): the filter is dropped, every scene is taken
pendingItemsAll(media) == [k \in DOMAIN media |-> media[k].index]

\* generatedMedia.filter(m => !m.mediaUrl), as the indices of the items
pendingItems(media) ==
    LET items == SelectSeq(media, LAMBDA m : m.mediaUrl = "")
    IN  [k \in DOMAIN items |-> items[k].index]

\* faulty variant of LoopBreaks (the properties must reject it): the flag is not looked at
LoopNeverBreaks(aborted) == FALSE

\* if (controller.signal.aborted) break;
LoopBreaks(aborted) == aborted

\* if (completedCount > 0) await new Promise(r => setTimeout(r, 4000));
Paces(completedCount) == completedCount > 0

\* faulty variant of AutoSaves (the properties must reject it): the save is not guarded by the flag
AutoSavesAlways(aborted) == TRUE

\* if (!controller.signal.aborted) { saveProject(...) }
AutoSaves(aborted) == ~aborted

\* the batch's state after a successful generateImage: completedCount++, next item
AfterSuccess(b) == [b EXCEPT !.completedCount = @ + 1, !.pos = @ + 1]

\* faulty variant of AfterFailure (the properties must reject it): the catch leaves the loop (a break)
AfterFailureBreaks(b) == [b EXCEPT !.pos = Len(b.pendingItems) + 1]

\* the batch's state after the catch of a failed item: the loop goes on
AfterFailure(b) == [b EXCEPT !.pos = @ + 1]

\* what the batch's catch does to the error state: console.error only
CatchItemError(err, idx) == err

\* the observations a new image batch starts with
BatchStarts(h, media) ==
    [h EXCEPT !.batchRuns = @ + 1,
              !.eligible = {i \in Indices(media) : Find(media, i).mediaUrl = ""},
              !.attempts = <<>>,
              !.finished = 0,
              !.failed = <<>>,
              !.saves = 0,
              !.cancelAt = 0,
              !.cancelled = FALSE]

\* The head of the for loop and what follows the loop, run from the state b of the
\* batch with the store `media`: either the next item is taken up to its first await
\* (the pacing delay or generateImage), or the loop is left, the auto-save is decided
\* and the finally block runs.
ProductionLoop(b, media, lt, ctrls, h) ==
    LET aborted == ctrls[b.controller] IN
    IF b.pos <= Len(b.pendingItems) /\ ~LoopBreaks(aborted)
    THEN LET idx == b.pendingItems[b.pos] IN
         /\ generatedMedia' = SetProcessing(media, idx, TRUE)
         /\ loadingType' = lt
         /\ projects' = projects
         /\ IF Paces(b.completedCount)
            THEN /\ prod' = [b EXCEPT !.pc = "delay"]
                 /\ hist' = h
            ELSE /\ prod' = [b EXCEPT !.pc = "gen"]
                 /\ hist' = [h EXCEPT !.attempts =
                                Append(@, [scene |-> idx, delayed |-> FALSE])]
    ELSE /\ generatedMedia' = media
         /\ loadingType' = "none"
         /\ prod' = [b EXCEPT !.pc = "done"]
         /\ IF AutoSaves(aborted)
            THEN /\ projects' = Append(projects, SavedProject(b.media))
                 /\ hist' = [h EXCEPT !.saves = @ + 1]
            ELSE /\ projects' = projects
                 /\ hist' = h

\* lines 208-228: the click on the batch button, up to the first await
handleStartProduction ==
    /\ currentStep = 3
    /\ prod.pc \in {"idle", "done"}
    /\ hist.batchRuns < MaxBatchRuns
    /\ LET ctrls == Append(controllers, FALSE)
           pend  == pendingItems(generatedMedia)
           b     == [ pc |-> "gen", media |-> generatedMedia, pendingItems |-> pend,
                      pos |-> 1,
                      completedCount |-> Len(generatedMedia) - Len(pend),
                      controller |-> Len(ctrls) ]
       IN  /\ controllers' = ctrls
           /\ abortControllerRef' = Len(ctrls)
           /\ error' = NULL
           /\ ProductionLoop(b, generatedMedia, "image", ctrls,
                             BatchStarts(hist, generatedMedia))
    /\ UNCHANGED <<currentStep, introScript, bodyScript, ops, call, seg, zip,
                   downloads, parse, job, googleApiKey, elevenLabsKey, falAiKey,
                   showSettings, plan, single, tts, ups, world>>

\* line 228: the pacing timer fires and generateImage is called
PacingDone ==
    /\ prod.pc = "delay"
    /\ prod' = [prod EXCEPT !.pc = "gen"]
    /\ hist' = [hist EXCEPT !.attempts =
                   Append(@, [scene |-> prod.pendingItems[prod.pos], delayed |-> TRUE])]
    /\ UNCHANGED <<currentStep, introScript, bodyScript, ops, call, seg, zip,
                   downloads, parse, job, generatedMedia, googleApiKey, elevenLabsKey,
                   falAiKey, loadingType, error, showSettings, controllers,
                   abortControllerRef, projects, plan, single, tts, ups, world>>

\* lines 230-243: generateImage settles; the item is written and the loop goes on
ImageDone ==
    /\ prod.pc = "gen"
    /\ LET idx == prod.pendingItems[prod.pos] IN
       IF ImageSucceeds(idx)
       THEN /\ error' = error
            /\ ProductionLoop(AfterSuccess(prod), SetImage(generatedMedia, idx, ImageUrl),
                              loadingType, controllers,
                              [hist EXCEPT !.finished = @ + 1])
       ELSE /\ error' = CatchItemError(error, idx)
            /\ ProductionLoop(AfterFailure(prod), SetProcessing(generatedMedia, idx, FALSE),
                              loadingType, controllers,
                              [hist EXCEPT !.finished = @ + 1,
                                           !.failed = Append(@, idx)])
    /\ UNCHANGED <<currentStep, introScript, bodyScript, ops, call, seg, zip,
                   downloads, parse, job, googleApiKey, elevenLabsKey, falAiKey,
                   showSettings, controllers, abortControllerRef, plan, single, tts,
                   ups, world>>

(***************************************************************************)
(* handleGenerateSingleImage.                                              *)
(***************************************************************************)
IdleSingle == [ pc |-> "idle", index |-> 0, media |-> <<>> ]

\* lines 172-182: the click on a card's regenerate button, up to the await
handleGenerateSingleImage(idx) ==
    /\ currentStep = 3
    /\ single.pc = "idle"
    /\ hist.singleRuns < MaxSingleRuns
    /\ idx \in Indices(generatedMedia)
    /\ loadingType' = "single_image"
    /\ error' = NULL
    /\ generatedMedia' = SetProcessing(generatedMedia, idx, TRUE)
    /\ single' = [ pc |-> "gen", index |-> idx, media |-> generatedMedia ]
    /\ hist' = [hist EXCEPT !.singleRuns = @ + 1]
    /\ UNCHANGED <<currentStep, introScript, bodyScript, ops, call, seg, zip,
                   downloads, parse, job, googleApiKey, elevenLabsKey, falAiKey,
                   showSettings, controllers, abortControllerRef, projects, plan, prod,
                   tts, ups, world>>

\* faulty variant of SingleSaves (the properties must reject it): saveProject is
\* called in the finally block
SingleSavesAlways(saved, media, ok) == Append(saved, SavedProject(media))

\* lines 189-198: saveProject({ ..., media: generatedMedia, ... }) at the end of the try
SingleSaves(saved, media, ok) ==
    IF ok THEN Append(saved, SavedProject(media)) ELSE saved

\* lines 182-205: generateImage settles
SingleImageDone ==
    /\ single.pc = "gen"
    /\ IF ImageSucceeds(single.index)
       THEN /\ generatedMedia' = SetImage(generatedMedia, single.index, ImageUrl)
            /\ error' = error
       ELSE /\ generatedMedia' = SetProcessing(generatedMedia, single.index, FALSE)
            /\ error' = ImageError(single.index)
    /\ projects' = SingleSaves(projects, single.media, ImageSucceeds(single.index))
    /\ loadingType' = "none"
    /\ single' = IdleSingle
    /\ UNCHANGED <<currentStep, introScript, bodyScript, ops, call, seg, zip,
                   downloads, parse, job, googleApiKey, elevenLabsKey, falAiKey,
                   showSettings, controllers, abortControllerRef, plan, prod, tts, ups,
                   world, hist>>

(***************************************************************************)
(* handleGenerateAllTTS: the TTS batch.                                    *)
(***************************************************************************)
IdleTts == [ pc |-> "idle", media |-> <<>>, pos |-> 0 ]

AudioUrl == "blob:audio"
ErrNoElevenLabsKey == "no ElevenLabs key"
TtsError == "tts failed"

\* prev.map(item => item.index === m.index ? { ...item, audioUrl: aUrl } : item)
SetAudio(media, idx, url) ==
    [k \in DOMAIN media |->
        IF media[k].index = idx THEN [media[k] EXCEPT !.audioUrl = url] ELSE media[k]]

\* what the TTS loop reads of the generatedMedia it captured
TtsView(media) ==
    [k \in DOMAIN media |->
        [ index |-> media[k].index, audioUrl |-> media[k].audioUrl,
          originalScriptSegment |-> media[k].originalScriptSegment ]]

\* if (m.audioUrl) continue: the first position from `from` on whose item lacks audio
RECURSIVE NextWithoutAudio(_, _)
NextWithoutAudio(media, from) ==
    IF from > Len(media) \/ media[from].audioUrl = "" THEN from
    ELSE NextWithoutAudio(media, from + 1)

\* The head of the for loop of handleGenerateAllTTS from position `from` of the
\* captured list: generateTTS is called for the next item without audio, or the loop
\* ends and the busy indicator is reset.  The loop reads no cancellation flag.
TtsLoop(media, from, lt, h) ==
    LET pos == NextWithoutAudio(media, from) IN
    IF pos <= Len(media)
    THEN /\ tts' = [ pc |-> "gen", media |-> media, pos |-> pos ]
         /\ loadingType' = lt
         /\ hist' = [h EXCEPT !.ttsLate = @ \/ h.ttsCancelled]
    ELSE /\ tts' = IdleTts
         /\ loadingType' = "none"
         /\ hist' = h

\* lines 369-377: the click on the TTS batch button, up to the first await
handleGenerateAllTTS ==
    /\ currentStep = 3
    /\ tts.pc = "idle"
    /\ hist.ttsRuns < MaxBatchRuns
    /\ LET h == [hist EXCEPT !.ttsRuns = @ + 1,
                             !.ttsCancelled = FALSE, !.ttsLate = FALSE]
       IN
       IF ~elevenLabsKey
       THEN /\ error' = ErrNoElevenLabsKey
            /\ showSettings' = TRUE
            /\ hist' = h
            /\ UNCHANGED <<tts, loadingType>>
       ELSE /\ TtsLoop(TtsView(generatedMedia), 1, "audio", h)
            /\ UNCHANGED <<error, showSettings>>
    /\ UNCHANGED <<currentStep, introScript, bodyScript, ops, call, seg, zip,
                   downloads, parse, job, generatedMedia, googleApiKey, elevenLabsKey,
                   falAiKey, controllers, abortControllerRef, projects, plan, prod,
                   single, ups, world>>

\* lines 377-380: generateTTS settles: the audio is written and the 500 ms wait
\* starts, or the catch sets the error and leaves the loop
TtsDone(ok) ==
    /\ tts.pc = "gen"
    /\ IF ok
       THEN /\ generatedMedia' = SetAudio(generatedMedia, tts.media[tts.pos].index, AudioUrl)
            /\ tts' = [tts EXCEPT !.pc = "delay"]
            /\ UNCHANGED <<error, loadingType>>
       ELSE /\ error' = TtsError
            /\ tts' = IdleTts
            /\ loadingType' = "none"
            /\ UNCHANGED generatedMedia
    /\ UNCHANGED <<currentStep, introScript, bodyScript, ops, call, seg, zip,
                   downloads, parse, job, googleApiKey, elevenLabsKey, falAiKey,
                   showSettings, controllers, abortControllerRef, projects, plan, prod,
                   single, ups, world, hist>>

\* line 379: the 500 ms timer fires and the loop goes on
TtsDelayDone ==
    /\ tts.pc = "delay"
    /\ TtsLoop(tts.media, tts.pos + 1, loadingType, hist)
    /\ UNCHANGED <<currentStep, introScript, bodyScript, ops, call, seg, zip,
                   downloads, parse, job, generatedMedia, googleApiKey, elevenLabsKey,
                   falAiKey, error, showSettings, controllers, abortControllerRef,
                   projects, plan, prod, single, ups, world>>

(***************************************************************************)
(* handleUpscaleAllImages: the upscale batch.                              *)
(***************************************************************************)
IdleUps == [ pc |-> "idle", items |-> <<>>, pos |-> 0 ]

\* an external call of a card operation or of the upscale batch has settled
Settled(h, kind, idx, ok) ==
    [h EXCEPT !.settled = [ kind |-> kind, index |-> idx, ok |-> ok ]]

\* the resource upscaleImage returns: the n-th one the upscale service has stored
UpscaledUrl(n) == "https://4k/" \o ToString(n)

\* the upscale service after a call that settled with ok
Served(w, ok) == IF ok THEN [w EXCEPT !.upscaled = @ + 1] ELSE w
ErrNoFalKey == "no Fal.ai key"

\* generatedMedia.filter(m => m.mediaUrl && !m.isUpscaling), with the fields of the
\* items the loop reads
itemsToUpscale(media) ==
    LET items == SelectSeq(media, LAMBDA m : m.mediaUrl # "" /\ ~m.isUpscaling)
    IN  [k \in DOMAIN items |-> [ index |-> items[k].index, mediaUrl |-> items[k].mediaUrl ]]

\* prev.map(p => p.index === item.index ? { ...p, isUpscaling: b } : p)
SetUpscaling(media, idx, b) ==
    [k \in DOMAIN media |->
        IF media[k].index = idx THEN [media[k] EXCEPT !.isUpscaling = b] ELSE media[k]]

\* faulty variant of SetUpscaled (the properties must reject it): only the flag is reset
SetUpscaledFlagOnly(media, idx, url) == SetUpscaling(media, idx, FALSE)

\* prev.map(p => p.index === item.index ? { ...p, mediaUrl: url, isUpscaling: false } : p)
SetUpscaled(media, idx, url) ==
    [k \in DOMAIN media |->
        IF media[k].index = idx
        THEN [media[k] EXCEPT !.mediaUrl = url, !.isUpscaling = FALSE]
        ELSE media[k]]

\* The head of the for loop of handleUpscaleAllImages at position pos of
\* itemsToUpscale: the item is flagged and upscaleImage is called, or the loop ends
\* and the busy indicator is reset.  The loop reads no cancellation flag.
UpscaleLoop(items, pos, media, lt, h) ==
    IF pos <= Len(items)
    THEN /\ generatedMedia' = SetUpscaling(media, items[pos].index, TRUE)
         /\ ups' = [ pc |-> "gen", items |-> items, pos |-> pos ]
         /\ loadingType' = lt
         /\ hist' = [h EXCEPT !.upsLate = @ \/ h.upsCancelled, !.requests = @ + 1]
    ELSE /\ generatedMedia' = media
         /\ ups' = IdleUps
         /\ loadingType' = "none"
         /\ hist' = h

\* lines 295-313: the click on the upscale batch button, up to the first await
handleUpscaleAllImages ==
    /\ currentStep = 3
    /\ ups.pc = "idle"
    /\ hist.upsRuns < MaxBatchRuns
    /\ LET h == [hist EXCEPT !.upsRuns = @ + 1,
                             !.upsCancelled = FALSE, !.upsLate = FALSE]
       IN
       IF ~falAiKey
       THEN /\ error' = ErrNoFalKey
            /\ showSettings' = TRUE
            /\ hist' = h
            /\ UNCHANGED <<ups, loadingType, generatedMedia>>
       ELSE /\ UpscaleLoop(itemsToUpscale(generatedMedia), 1, generatedMedia,
                           "upscale", h)
            /\ UNCHANGED <<error, showSettings>>
    /\ UNCHANGED <<currentStep, introScript, bodyScript, ops, call, seg, zip,
                   downloads, parse, job, googleApiKey, elevenLabsKey, falAiKey,
                   controllers, abortControllerRef, projects, plan, prod, single, tts,
                   world>>

\* lines 313-325: upscaleImage settles; the item is written and the loop goes on
UpscaleDone(ok) ==
    /\ ups.pc = "gen"
    /\ LET idx == ups.items[ups.pos].index
           url == UpscaledUrl(world.upscaled + 1)
           media == IF ok THEN SetUpscaled(generatedMedia, idx, url)
                    ELSE SetUpscaling(generatedMedia, idx, FALSE)
       IN  UpscaleLoop(ups.items, ups.pos + 1, media, loadingType,
                       Settled(hist, "upscale", idx, ok))
    /\ world' = Served(world, ok)
    /\ UNCHANGED <<currentStep, introScript, bodyScript, ops, call, seg, zip,
                   downloads, parse, job, googleApiKey, elevenLabsKey, falAiKey, error,
                   showSettings, controllers, abortControllerRef, projects, plan, prod,
                   single, tts>>

(***************************************************************************)
(* generateVideoFromImage (part_000:137-150).  The external job is given   *)
(* by its fate: it reports done, a call about it rejects, or neither ever  *)
(* happens, after job.left answers that report it as not done.             *)
(***************************************************************************)
MaxPolls == 2
PollIntervalMs == 10000

Fates == {"done", "error", "never"}

IdleJob ==
    [ pc |-> "idle", fate |-> "none", left |-> 0, polls |-> 0, timers |-> 0,
      delay |-> 0 ]

(***************************************************************************)
(* The operations of one card: handleUpscaleImage, handleGenerateVideo,    *)
(* handleGenerateTTS.  ops holds, per kind, the invocation in flight with  *)
(* the item it captured.                                                   *)
(***************************************************************************)
MaxCardRuns == 2

IdleOp == [ pc |-> "idle", index |-> 0, media |-> NULL ]

IdleOps == [ upscale |-> IdleOp, video |-> IdleOp, audio |-> IdleOp ]

VideoUrl == "https://video"
UpscaleError == "upscale failed"
VideoError == "video failed"

\* prev.map(m => m.index === index ? { ...m, isVideoProcessing: b } : m)
SetVideoProcessing(media, idx, b) ==
    [k \in DOMAIN media |->
        IF media[k].index = idx THEN [media[k] EXCEPT !.isVideoProcessing = b]
        ELSE media[k]]

\* faulty variant of SetVideo (the properties must reject it): { ...media, videoUrl: vUrl },
\* the item captured at the click is written back
SetVideoFromCapture(media, idx, url) ==
    [k \in DOMAIN media |->
        IF media[k].index = idx
        THEN [ops.video.media EXCEPT !.videoUrl = url, !.isVideoProcessing = FALSE]
        ELSE media[k]]

\* prev.map(m => m.index === index ? { ...m, videoUrl: vUrl, isVideoProcessing: false } : m)
SetVideo(media, idx, url) ==
    [k \in DOMAIN media |->
        IF media[k].index = idx
        THEN [media[k] EXCEPT !.videoUrl = url, !.isVideoProcessing = FALSE]
        ELSE media[k]]

\* prev.map(m => m.index === index ? { ...m, isAudioProcessing: b } : m)
SetAudioProcessing(media, idx, b) ==
    [k \in DOMAIN media |->
        IF media[k].index = idx THEN [media[k] EXCEPT !.isAudioProcessing = b]
        ELSE media[k]]

\* prev.map(m => m.index === index ? { ...m, audioUrl: aUrl, isAudioProcessing: false } : m)
SetAudioDone(media, idx, url) ==
    [k \in DOMAIN media |->
        IF media[k].index = idx
        THEN [media[k] EXCEPT !.audioUrl = url, !.isAudioProcessing = FALSE]
        ELSE media[k]]

\* the card operations in flight on scene idx
InFlightOn(idx) ==
    {kind \in DOMAIN ops : ops[kind].pc = "gen" /\ ops[kind].index = idx}

\* the card operation `kind` issues its external call for scene idx
Requested(h, kind, idx) ==
    [h EXCEPT !.requests = @ + 1,
              !.overlap = IF InFlightOn(idx) = {} THEN @
                          ELSE @ \cup InFlightOn(idx) \cup {kind}]

\* lines 266-279: the click on a card's 4K button, up to the await
handleUpscaleImage(idx) ==
    /\ currentStep = 3
    /\ ops.upscale.pc = "idle"
    /\ hist.cardClicks < MaxCardRuns
    /\ idx \in Indices(generatedMedia)
    /\ LET h == [hist EXCEPT !.cardClicks = @ + 1]
           item == Find(generatedMedia, idx)
       IN
       IF ~falAiKey
       THEN /\ error' = ErrNoFalKey
            /\ showSettings' = TRUE
            /\ hist' = h
            /\ UNCHANGED <<generatedMedia, loadingType, ops>>
       ELSE IF item.mediaUrl = ""
       THEN /\ hist' = h
            /\ UNCHANGED <<generatedMedia, loadingType, ops, error, showSettings>>
       ELSE /\ loadingType' = "single_image"
            /\ generatedMedia' = SetUpscaling(generatedMedia, idx, TRUE)
            /\ ops' = [ops EXCEPT !.upscale = [ pc |-> "gen", index |-> idx,
                                                media |-> item ]]
            /\ hist' = Requested(h, "upscale", idx)
            /\ UNCHANGED <<error, showSettings>>
    /\ UNCHANGED <<currentStep, introScript, bodyScript, googleApiKey, elevenLabsKey,
                   falAiKey, controllers, abortControllerRef, projects, plan, prod,
                   single, tts, ups, call, seg, zip, downloads, parse, job, world>>

\* lines 280-292: upscaleImage settles
UpscaleImageDone(ok) ==
    /\ ops.upscale.pc = "gen"
    /\ LET idx == ops.upscale.index IN
       /\ IF ok
          THEN /\ generatedMedia' =
                    SetUpscaled(generatedMedia, idx, UpscaledUrl(world.upscaled + 1))
               /\ error' = error
          ELSE /\ generatedMedia' = SetUpscaling(generatedMedia, idx, FALSE)
               /\ error' = UpscaleError
       /\ hist' = Settled(hist, "upscale", idx, ok)
    /\ world' = Served(world, ok)
    /\ loadingType' = "none"
    /\ ops' = [ops EXCEPT !.upscale = IdleOp]
    /\ UNCHANGED <<currentStep, introScript, bodyScript, googleApiKey, elevenLabsKey,
                   falAiKey, showSettings, controllers, abortControllerRef, projects,
                   plan, prod, single, tts, ups, call, seg, zip, downloads, parse,
                   job>>

\* lines 330-338: the click on a card's video button, up to the await
handleGenerateVideo(idx) ==
    /\ currentStep = 3
    /\ ops.video.pc = "idle"
    /\ hist.cardClicks < MaxCardRuns
    /\ idx \in Indices(generatedMedia)
    /\ LET h == [hist EXCEPT !.cardClicks = @ + 1]
           media == Find(generatedMedia, idx)
       IN
       IF media.mediaUrl = "" \/ media.videoUrl # ""
       THEN /\ hist' = h
            /\ UNCHANGED <<generatedMedia, loadingType, ops>>
       ELSE /\ loadingType' = "single_image"
            /\ generatedMedia' = SetVideoProcessing(generatedMedia, idx, TRUE)
            /\ ops' = [ops EXCEPT !.video = [ pc |-> "gen", index |-> idx,
                                              media |-> media ]]
            /\ hist' = Requested(h, "video", idx)
    /\ UNCHANGED <<currentStep, introScript, bodyScript, googleApiKey, elevenLabsKey,
                   falAiKey, error, showSettings, controllers, abortControllerRef,
                   projects, plan, prod, single, tts, ups, call, seg, zip, downloads,
                   parse, job, world>>

\* lines 339-346: generateVideoFromImage settles
VideoDone(ok) ==
    /\ ops.video.pc = "gen"
    /\ LET idx == ops.video.index IN
       /\ IF ok
          THEN /\ generatedMedia' = SetVideo(generatedMedia, idx, VideoUrl)
               /\ error' = error
          ELSE /\ generatedMedia' = SetVideoProcessing(generatedMedia, idx, FALSE)
               /\ error' = VideoError
       /\ hist' = Settled(hist, "video", idx, ok)
    /\ loadingType' = "none"
    /\ ops' = [ops EXCEPT !.video = IdleOp]
    /\ job' = IdleJob
    /\ UNCHANGED <<currentStep, introScript, bodyScript, googleApiKey, elevenLabsKey,
                   falAiKey, showSettings, controllers, abortControllerRef, projects,
                   plan, prod, single, tts, ups, call, seg, zip, downloads, parse,
                   world>>

\* lines 349-357: the click on a card's TTS button, up to the await
handleGenerateTTS(idx) ==
    /\ currentStep = 3
    /\ ops.audio.pc = "idle"
    /\ hist.cardClicks < MaxCardRuns
    /\ idx \in Indices(generatedMedia)
    /\ LET h == [hist EXCEPT !.cardClicks = @ + 1]
           media == Find(generatedMedia, idx)
       IN
       IF ~elevenLabsKey
       THEN /\ error' = ErrNoElevenLabsKey
            /\ showSettings' = TRUE
            /\ hist' = h
            /\ UNCHANGED <<generatedMedia, loadingType, ops>>
       ELSE /\ loadingType' = "single_image"
            /\ generatedMedia' = SetAudioProcessing(generatedMedia, idx, TRUE)
            /\ ops' = [ops EXCEPT !.audio = [ pc |-> "gen", index |-> idx,
                                              media |-> media ]]
            /\ hist' = Requested(h, "audio", idx)
            /\ UNCHANGED <<error, showSettings>>
    /\ UNCHANGED <<currentStep, introScript, bodyScript, googleApiKey, elevenLabsKey,
                   falAiKey, controllers, abortControllerRef, projects, plan, prod,
                   single, tts, ups, call, seg, zip, downloads, parse, job, world>>

\* lines 358-366: generateTTS settles
TtsSingleDone(ok) ==
    /\ ops.audio.pc = "gen"
    /\ LET idx == ops.audio.index IN
       /\ IF ok
          THEN /\ generatedMedia' = SetAudioDone(generatedMedia, idx, AudioUrl)
               /\ error' = error
          ELSE /\ generatedMedia' = SetAudioProcessing(generatedMedia, idx, FALSE)
               /\ error' = TtsError
       /\ hist' = Settled(hist, "audio", idx, ok)
    /\ loadingType' = "none"
    /\ ops' = [ops EXCEPT !.audio = IdleOp]
    /\ UNCHANGED <<currentStep, introScript, bodyScript, googleApiKey, elevenLabsKey,
                   falAiKey, showSettings, controllers, abortControllerRef, projects,
                   plan, prod, single, tts, ups, call, seg, zip, downloads, parse, job,
                   world>>

(***************************************************************************)
(* The buttons of the loading modal and of the error modal.                *)
(***************************************************************************)
\* what the click observes of the batches in flight
CancelSeen(h) ==
    LET h1 == IF /\ prod.pc \in {"delay", "gen"}
                 /\ abortControllerRef = prod.controller
                 /\ ~controllers[prod.controller]
              THEN [h EXCEPT !.cancelAt = prod.pendingItems[prod.pos],
                             !.cancelled = TRUE]
              ELSE h
        h2 == IF tts.pc # "idle" THEN [h1 EXCEPT !.ttsCancelled = TRUE] ELSE h1
    IN  IF ups.pc # "idle" THEN [h2 EXCEPT !.upsCancelled = TRUE] ELSE h2

\* line 608: abortControllerRef.current?.abort()
CancelClick ==
    /\ loadingType # "none"
    /\ controllers' = IF abortControllerRef # 0
                      THEN [controllers EXCEPT ![abortControllerRef] = TRUE]
                      ELSE controllers
    /\ hist' = CancelSeen(hist)
    /\ UNCHANGED <<currentStep, introScript, bodyScript, ops, call, seg, zip,
                   downloads, parse, job, generatedMedia, googleApiKey, elevenLabsKey,
                   falAiKey, loadingType, error, showSettings, abortControllerRef,
                   projects, plan, prod, single, tts, ups, world>>

\* line 585: setError(null)
DismissError ==
    /\ error # NULL
    /\ error' = NULL
    /\ UNCHANGED <<currentStep, introScript, bodyScript, ops, call, seg, zip,
                   downloads, parse, job, generatedMedia, googleApiKey, elevenLabsKey,
                   falAiKey, loadingType, showSettings, controllers,
                   abortControllerRef, projects, plan, prod, single, tts, ups, world,
                   hist>>

(***************************************************************************)
(* The loop of generateVideoFromImage.                                     *)
(***************************************************************************)
\* faulty variant of LoopContinues (the properties must reject it): the loop gives up
\* after MaxPolls polls
LoopContinuesCapped(done, polls) == ~done /\ polls < MaxPolls

\* line 145: while (!operation.done)
LoopContinues(done, polls) == ~done

\* a counter of the observations, kept up to MaxPolls + 1
Counted(n) == IF n <= MaxPolls THEN n + 1 ELSE n

\* lines 138-144: generateVideoFromImage is entered and awaits ai.models.generateVideos
generateVideoFromImage ==
    /\ ops.video.pc = "gen"
    /\ job.pc = "idle"
    /\ \E fate \in Fates, left \in 0..MaxPolls :
         job' = [IdleJob EXCEPT !.pc = "starting", !.fate = fate, !.left = left]
    /\ UNCHANGED <<currentStep, introScript, bodyScript, generatedMedia, googleApiKey,
                   elevenLabsKey, falAiKey, loadingType, error, showSettings,
                   controllers, abortControllerRef, projects, plan, prod, single, tts,
                   ups, ops, call, seg, zip, downloads, parse, world, hist>>

\* lines 139-149 and 147-149: the answer to generateVideos or to getVideosOperation
\* arrives; the loop condition is evaluated, the function returns, throws or arms the
\* timer of line 146
OperationSettles ==
    /\ job.pc \in {"starting", "polling"}
    /\ LET rejected == job.left = 0 /\ job.fate = "error"
           done     == job.left = 0 /\ job.fate = "done"
       IN
       job' = IF rejected THEN [job EXCEPT !.pc = "threw"]
              ELSE IF LoopContinues(done, job.polls)
              THEN [job EXCEPT !.pc = "waiting",
                               !.left = IF @ > 0 THEN @ - 1 ELSE 0,
                               !.timers = Counted(@),
                               !.delay = PollIntervalMs]
              ELSE [job EXCEPT !.pc = "returned"]
    /\ UNCHANGED <<currentStep, introScript, bodyScript, generatedMedia, googleApiKey,
                   elevenLabsKey, falAiKey, loadingType, error, showSettings,
                   controllers, abortControllerRef, projects, plan, prod, single, tts,
                   ups, ops, call, seg, zip, downloads, parse, world, hist>>

\* lines 146-147: the timer fires and ai.operations.getVideosOperation is called
PollTimerFires ==
    /\ job.pc = "waiting"
    /\ job' = [job EXCEPT !.pc = "polling", !.polls = Counted(@)]
    /\ UNCHANGED <<currentStep, introScript, bodyScript, generatedMedia, googleApiKey,
                   elevenLabsKey, falAiKey, loadingType, error, showSettings,
                   controllers, abortControllerRef, projects, plan, prod, single, tts,
                   ups, ops, call, seg, zip, downloads, parse, world, hist>>

\* lines 339-346 after generateVideoFromImage has returned or thrown
VideoCallSettles ==
    \/ job.pc = "returned" /\ VideoDone(TRUE)
    \/ job.pc = "threw" /\ VideoDone(FALSE)

(***************************************************************************)
(* handleFinalZipDownload (App.tsx:385-416).  The loop visits the scenes   *)
(* captured at the click; awaiting fetch(url) and response.blob() resolves *)
(* for any HTTP status and rejects on a network failure.                   *)
(***************************************************************************)
MaxZipRuns == 1

IdleZip == [ pc |-> "idle", media |-> <<>>, pos |-> 0, files |-> {} ]

ZipError == "zip failed"

\* `scene-${media.index}.png` of the folder images, `scene-${media.index}.mp3` of audio
FileName(kind, index) ==
    IF kind = "image" THEN "images/scene-" \o ToString(index) \o ".png"
    ELSE "audio/scene-" \o ToString(index) \o ".mp3"

\* the url that the loop body reads for a resource of a scene
UrlOf(m, kind) == IF kind = "image" THEN m.mediaUrl ELSE m.audioUrl

\* the loop body has two places: position 2i-1 is the image of scene i, 2i its audio
KindAt(pos) == IF pos % 2 = 1 THEN "image" ELSE "audio"

SceneAt(media, pos) == media[(pos + 1) \div 2]

\* if (media.mediaUrl) ... if (media.audioUrl): the places after `after` that fetch
Fetches(media, after) ==
    {pos \in (after + 1)..(2 * Len(media)) : UrlOf(SceneAt(media, pos), KindAt(pos)) # ""}

\* faulty variant of Packed (the properties must reject it): the file is added before
\* the fetch is awaited
PackedAlways(files, name, resolved) == files \cup {name}

\* imageFolder?.file(name, blob) in the try, console.error(e) in the catch
Packed(files, name, resolved) == IF resolved THEN files \cup {name} ELSE files

\* lines 392-408: the loop from the place after `after` up to its next await
ZipLoop(media, after, files) ==
    LET next == Fetches(media, after) IN
    IF next = {}
    THEN zip' = [ pc |-> "generate", media |-> media, pos |-> 0, files |-> files ]
    ELSE zip' = [ pc |-> "fetch", media |-> media, files |-> files,
                  pos |-> CHOOSE pos \in next : \A q \in next : pos <= q ]

\* lines 385-393: the click on the download button, up to the first await
handleFinalZipDownload ==
    /\ currentStep = 3
    /\ zip.pc = "idle"
    /\ hist.zipRuns < MaxZipRuns
    /\ hist' = [hist EXCEPT !.zipRuns = @ + 1, !.fetched = {}, !.rejected = {}]
    /\ IF Len(generatedMedia) = 0
       THEN UNCHANGED <<zip, loadingType>>
       ELSE /\ loadingType' = "zip"
            /\ ZipLoop(generatedMedia, 0, {})
    /\ UNCHANGED <<currentStep, introScript, bodyScript, generatedMedia, googleApiKey,
                   elevenLabsKey, falAiKey, error, showSettings, controllers,
                   abortControllerRef, projects, plan, prod, single, tts, ups, ops,
                   call, seg, downloads, parse, job, world>>

\* lines 395-407: fetch and blob of the resource at zip.pos settle
FetchSettles(resolved) ==
    /\ zip.pc = "fetch"
    /\ LET m == SceneAt(zip.media, zip.pos)
           kind == KindAt(zip.pos)
       IN
       /\ ZipLoop(zip.media, zip.pos,
                  Packed(zip.files, FileName(kind, m.index), resolved))
       /\ hist' = IF resolved
                  THEN [hist EXCEPT !.fetched = @ \cup {<<m.index, kind>>}]
                  ELSE [hist EXCEPT !.rejected = @ \cup {<<m.index, kind>>}]
    /\ UNCHANGED <<currentStep, introScript, bodyScript, generatedMedia, googleApiKey,
                   elevenLabsKey, falAiKey, loadingType, error, showSettings,
                   controllers, abortControllerRef, projects, plan, prod, single, tts,
                   ups, ops, call, seg, downloads, parse, job, world>>

\* lines 409-415: zip.generateAsync settles, link.click(), catch and finally
ArchiveGenerated(ok) ==
    /\ zip.pc = "generate"
    /\ IF ok
       THEN /\ downloads' = Append(downloads, zip.files)
            /\ error' = error
       ELSE /\ error' = ZipError
            /\ downloads' = downloads
    /\ loadingType' = "none"
    /\ zip' = IdleZip
    /\ UNCHANGED <<currentStep, introScript, bodyScript, generatedMedia, googleApiKey,
                   elevenLabsKey, falAiKey, showSettings, controllers,
                   abortControllerRef, projects, plan, prod, single, tts, ups, ops,
                   call, seg, parse, job, world, hist>>

(***************************************************************************)
(* The parsing and the normalization of one answer of the analysis service *)
(* (part_000:86-91): robustJsonParse(response.text), then data.map(...).   *)
(***************************************************************************)
MaxItems == 2

IdleParse ==
    [ pc |-> "idle", text |-> <<>>, value |-> <<>>, out |-> <<>>, thrown |-> NULL ]

\* an array item that is the JSON value null
NullItem == [ null |-> TRUE ]

NullItemError == "Cannot read properties of null"

\* the items of a parsed array: objects that carry any of the three text fields with
\* both prompts, objects that carry scriptSegment with any of the four prompt fields,
\* and null
ParsedItems ==
    {[Item(script, korean, "p1", "m2") EXCEPT !.text = text] :
        script \in {<<>>, <<"s">>}, korean \in {<<>>, <<"k">>}, text \in {<<>>, <<"t">>}}
    \cup
    {[Item(<<"s">>, <<>>, visual[1], motion[2]) EXCEPT !.imagePrompt = visual[2],
                                                       !.motion_prompt = motion[1]] :
        visual \in {"", "p1"} \X {"", "p2"}, motion \in {"", "m1"} \X {"", "m2"}}
    \cup {NullItem}

ParsedArrays == UNION {[1..n -> ParsedItems] : n \in 0..MaxItems}

\* the callback of data.map reads item.scriptSegment: a TypeError on a null item
MapThrows(data) == \E k \in DOMAIN data : data[k] = NullItem

\* lines 87-91: const normalizedData = data.map(...)
NormalizeResponse ==
    /\ parse.pc = "parsed"
    /\ parse' = IF MapThrows(parse.value)
                THEN [parse EXCEPT !.pc = "failed", !.thrown = NullItemError]
                ELSE [parse EXCEPT !.pc = "normalized",
                                   !.out = normalizedData(parse.value)]
    /\ UNCHANGED <<currentStep, introScript, bodyScript, generatedMedia, googleApiKey,
                   elevenLabsKey, falAiKey, loadingType, error, showSettings,
                   controllers, abortControllerRef, projects, plan, prod, single, tts,
                   ups, ops, call, seg, zip, downloads, job, world, hist>>

(***************************************************************************)
(* robustJsonParse (part_000:21-43).  A text is a sequence of characters   *)
(* of JsonAlphabet: the brackets, "k" for a key with its colon, "1" for a  *)
(* scalar, "x" for prose, "F" for a code fence and the space.              *)
(***************************************************************************)
MaxJsonLen == 4

JsonAlphabet == {"[", "]", "{", "}", "k", "1", "x", "F", " "}

JsonTexts == UNION {[1..n -> JsonAlphabet] : n \in 0..MaxJsonLen}

NoResponseError == "no response"
MalformedError == "malformed response"

\* the grammar JSON.parse accepts once the whitespace between tokens is skipped: a
\* scalar, an array of at most one value, an object of at most one member
RECURSIVE IsJson(_)
IsJson(t) ==
    \/ t = <<"1">>
    \/ t = <<"[", "]">>
    \/ t = <<"{", "}">>
    \/ /\ Len(t) >= 3
       /\ t[1] = "[" /\ t[Len(t)] = "]"
       /\ IsJson(SubSeq(t, 2, Len(t) - 1))
    \/ /\ Len(t) >= 4
       /\ t[1] = "{" /\ t[2] = "k" /\ t[Len(t)] = "}"
       /\ IsJson(SubSeq(t, 3, Len(t) - 1))

NoSpace(t) == SelectSeq(t, LAMBDA c : c # " ")

\* JSON.parse(t): the value read (its tokens), or a SyntaxError
JSONparse(t) ==
    IF IsJson(NoSpace(t)) THEN [ value |-> NoSpace(t), thrown |-> NULL ]
    ELSE [ value |-> <<>>, thrown |-> "SyntaxError" ]

\* text.replace(/```json\s*|```/g, '')
RemoveFences(t) == SelectSeq(t, LAMBDA c : c # "F")

\* t.indexOf(c) and t.lastIndexOf(c) as positions from 1, 0 for -1
IndexOf(t, c) ==
    IF \E k \in DOMAIN t : t[k] = c
    THEN CHOOSE k \in DOMAIN t : t[k] = c /\ \A j \in 1..(k - 1) : t[j] # c
    ELSE 0

LastIndexOf(t, c) ==
    IF \E k \in DOMAIN t : t[k] = c
    THEN CHOOSE k \in DOMAIN t : t[k] = c /\ \A j \in (k + 1)..Len(t) : t[j] # c
    ELSE 0

\* t.substring(start, end + 1) for the positions first = start + 1 and last = end + 1:
\* substring swaps its two arguments when the first is the greater
substring(t, first, last) ==
    IF first <= last + 1 THEN SubSeq(t, first, last)
    ELSE SubSeq(t, last + 1, first - 1)

\* the catch of lines 38-41 turns every error of the inner try into the same error
Reparse(t) ==
    IF JSONparse(t).thrown = NULL THEN JSONparse(t)
    ELSE [ value |-> <<>>, thrown |-> MalformedError ]

robustJsonParse(text) ==
    IF text = <<>> THEN [ value |-> <<>>, thrown |-> NoResponseError ]
    ELSE IF JSONparse(trim(text)).thrown = NULL THEN JSONparse(trim(text))
    ELSE LET cleaned  == trim(RemoveFences(text))
             startArr == IndexOf(cleaned, "[")
             endArr   == LastIndexOf(cleaned, "]")
             startObj == IndexOf(cleaned, "{")
             endObj   == LastIndexOf(cleaned, "}")
         IN  IF startArr # 0 /\ endArr # 0 /\ (startArr < startObj \/ startObj = 0)
             THEN Reparse(substring(cleaned, startArr, endArr))
             ELSE IF startObj # 0 /\ endObj # 0
             THEN Reparse(substring(cleaned, startObj, endObj))
             ELSE [ value |-> <<>>, thrown |-> MalformedError ]

\* robustJsonParse(parse.text) is called and returns or throws
EvalRobustJsonParse ==
    /\ parse.pc = "idle"
    /\ LET r == robustJsonParse(parse.text) IN
       parse' = [parse EXCEPT !.pc = IF r.thrown = NULL THEN "returned" ELSE "threw",
                              !.value = r.value,
                              !.thrown = r.thrown]
    /\ UNCHANGED <<currentStep, introScript, bodyScript, generatedMedia, googleApiKey,
                   elevenLabsKey, falAiKey, loadingType, error, showSettings,
                   controllers, abortControllerRef, projects, plan, prod, single, tts,
                   ups, ops, call, seg, zip, downloads, job, world, hist>>

(***************************************************************************)
(* Spec: the production step with the image batch, the single image and    *)
(* the cancel button.  The store holds a confirmed plan of 1..MaxScenes    *)
(* scenes without media; the image service fails for the scenes of         *)
(* world.failImage and succeeds for the others.                            *)
(***************************************************************************)
SomeText == <<"a", ".">>

PlanOf(n) ==
    [k \in 1..n |->
        PlannedScene([scriptSegment |-> SomeText, imagePrompt |-> "p",
                      videoMotionPrompt |-> "m"], k, 1)]

IdleHist ==
    [ batchRuns |-> 0, singleRuns |-> 0, eligible |-> {}, attempts |-> <<>>,
      finished |-> 0, failed |-> <<>>, saves |-> 0, cancelAt |-> 0,
      cancelled |-> FALSE, planRuns |-> 0, calls |-> 0, okBatches |-> 0,
      planFailed |-> FALSE, ttsRuns |-> 0, ttsCancelled |-> FALSE,
      ttsLate |-> FALSE, upsRuns |-> 0, upsCancelled |-> FALSE, upsLate |-> FALSE,
      confirmedN |-> -1, loads |-> 0, requests |-> 0,
      settled |-> [ kind |-> "none", index |-> 0, ok |-> FALSE ],
      cardClicks |-> 0, overlap |-> {}, zipRuns |-> 0, fetched |-> {},
      rejected |-> {}, analyzed |-> <<>>, sent |-> <<>>, progress |-> <<>> ]


Init ==
    /\ currentStep = 3
    /\ introScript = SomeText
    /\ bodyScript = <<>>
    /\ \E n \in 1..MaxScenes :
         /\ generatedMedia = PlanOf(n)
         /\ \E f \in SUBSET (1..n) :
              world = [ failImage |-> f, upscaled |-> 0 ]
    /\ googleApiKey = TRUE
    /\ elevenLabsKey = TRUE
    /\ falAiKey = TRUE
    /\ loadingType = "none"
    /\ error = NULL
    /\ showSettings = FALSE
    /\ controllers = <<FALSE>>
    /\ abortControllerRef = 1
    /\ projects = <<>>
    /\ plan = IdlePlan
    /\ prod = IdleProd
    /\ single = IdleSingle
    /\ tts = IdleTts
    /\ ups = IdleUps
    /\ ops = IdleOps
    /\ zip = IdleZip
    /\ downloads = <<>>
    /\ parse = IdleParse
    /\ job = IdleJob
    /\ call = IdleCall
    /\ seg = IdleSeg
    /\ hist = ReachesProduction(IdleHist, generatedMedia)

Next ==
    \/ handleStartProduction
    \/ PacingDone
    \/ ImageDone
    \/ \E idx \in 1..MaxScenes : handleGenerateSingleImage(idx)
    \/ SingleImageDone
    \/ CancelClick
    \/ DismissError

Spec == Init /\ [][Next]_vars

(***************************************************************************)
(* SpecPlan: the input and review steps.  The two scripts are drawn from   *)
(* IntroTexts and BodyTexts, the Gemini key is set or not, and every batch *)
(* of an analysis may end in any of Outcomes.                              *)
(***************************************************************************)
InitPlan ==
    /\ currentStep = 1
    /\ introScript \in IntroTexts
    /\ bodyScript \in BodyTexts
    /\ generatedMedia = <<>>
    /\ googleApiKey \in BOOLEAN
    /\ elevenLabsKey = TRUE
    /\ falAiKey = TRUE
    /\ loadingType = "none"
    /\ error = NULL
    /\ showSettings = FALSE
    /\ controllers = <<>>
    /\ abortControllerRef = 0
    /\ projects = <<>>
    /\ plan = IdlePlan
    /\ prod = IdleProd
    /\ single = IdleSingle
    /\ tts = IdleTts
    /\ ups = IdleUps
    /\ ops = IdleOps
    /\ zip = IdleZip
    /\ downloads = <<>>
    /\ parse = IdleParse
    /\ job = IdleJob
    /\ call = IdleCall
    /\ seg = IdleSeg
    /\ world = [ failImage |-> {}, upscaled |-> 0 ]
    /\ hist = IdleHist

NextPlan ==
    \/ handleAnalyzeAndPlan
    \/ \E outcome \in Outcomes : AnalyzerBatch(outcome)
    \/ handleConfirmPlan
    \/ PreviousStep
    \/ CancelClick
    \/ DismissError

SpecPlan == InitPlan /\ [][NextPlan]_vars

(***************************************************************************)
(* SpecAux: the production step with the TTS batch and the upscale batch.  *)
(* The store holds a confirmed plan in which some scenes have their image; *)
(* abortControllerRef still holds the controller of the planning.  Each    *)
(* call of the speech and of the upscale service succeeds or fails.        *)
(***************************************************************************)
InitAux ==
    /\ currentStep = 3
    /\ introScript = SomeText
    /\ bodyScript = <<>>
    /\ \E n \in 1..MaxScenes : \E withImage \in SUBSET (1..n) :
         generatedMedia =
            [k \in 1..n |->
                IF k \in withImage
                THEN [PlanOf(n)[k] EXCEPT !.mediaUrl = ImageUrl]
                ELSE PlanOf(n)[k]]
    /\ googleApiKey = TRUE
    /\ elevenLabsKey \in BOOLEAN
    /\ falAiKey \in BOOLEAN
    /\ loadingType = "none"
    /\ error = NULL
    /\ showSettings = FALSE
    /\ controllers = <<FALSE>>
    /\ abortControllerRef = 1
    /\ projects = <<>>
    /\ plan = IdlePlan
    /\ prod = IdleProd
    /\ single = IdleSingle
    /\ tts = IdleTts
    /\ ups = IdleUps
    /\ ops = IdleOps
    /\ zip = IdleZip
    /\ downloads = <<>>
    /\ parse = IdleParse
    /\ job = IdleJob
    /\ call = IdleCall
    /\ seg = IdleSeg
    /\ world = [ failImage |-> {}, upscaled |-> 0 ]
    /\ hist = ReachesProduction(IdleHist, generatedMedia)

NextAux ==
    \/ handleGenerateAllTTS
    \/ \E ok \in BOOLEAN : TtsDone(ok)
    \/ TtsDelayDone
    \/ handleUpscaleAllImages
    \/ \E ok \in BOOLEAN : UpscaleDone(ok)
    \/ CancelClick
    \/ DismissError

SpecAux == InitAux /\ [][NextAux]_vars

(***************************************************************************)
(* SpecCard: the production step with the operations of the cards.  The    *)
(* store holds a confirmed plan of 1..MaxCards scenes, each without media, *)
(* with its image, or with image, video and audio; the ElevenLabs key is   *)
(* set or not; every external call succeeds or fails.                      *)
(***************************************************************************)
MaxCards == 2

\* what a scene may hold at the start: nothing, its image, or all its media
CardKinds == {{}, {"image"}, {"image", "video", "audio"}}

CardOf(k, kind) ==
    [PlanOf(k)[k] EXCEPT
        !.mediaUrl = IF "image" \in kind THEN ImageUrl ELSE "",
        !.videoUrl = IF "video" \in kind THEN VideoUrl ELSE "",
        !.audioUrl = IF "audio" \in kind THEN AudioUrl ELSE ""]

CardsAtProduction ==
    /\ currentStep = 3
    /\ introScript = SomeText
    /\ bodyScript = <<>>
    /\ \E n \in 1..MaxCards : \E kinds \in [1..n -> CardKinds] :
         generatedMedia = [k \in 1..n |-> CardOf(k, kinds[k])]
    /\ googleApiKey = TRUE
    /\ loadingType = "none"
    /\ error = NULL
    /\ showSettings = FALSE
    /\ controllers = <<FALSE>>
    /\ abortControllerRef = 1
    /\ projects = <<>>
    /\ plan = IdlePlan
    /\ prod = IdleProd
    /\ single = IdleSingle
    /\ tts = IdleTts
    /\ ups = IdleUps
    /\ ops = IdleOps
    /\ zip = IdleZip
    /\ downloads = <<>>
    /\ parse = IdleParse
    /\ job = IdleJob
    /\ call = IdleCall
    /\ seg = IdleSeg
    /\ world = [ failImage |-> {}, upscaled |-> 0 ]
    /\ hist = ReachesProduction(IdleHist, generatedMedia)

InitCard ==
    /\ CardsAtProduction
    /\ elevenLabsKey \in BOOLEAN
    /\ falAiKey = TRUE

NextCard ==
    \/ \E idx \in 1..MaxCards : handleUpscaleImage(idx)
    \/ \E ok \in BOOLEAN : UpscaleImageDone(ok)
    \/ \E idx \in 1..MaxCards : handleGenerateVideo(idx)
    \/ \E ok \in BOOLEAN : VideoDone(ok)
    \/ \E idx \in 1..MaxCards : handleGenerateTTS(idx)
    \/ \E ok \in BOOLEAN : TtsSingleDone(ok)

SpecCard == InitCard /\ [][NextCard]_vars

(***************************************************************************)
(* SpecUpscale: the same store with the two upscale operations, the one of *)
(* a card and the batch; the Fal.ai key is set or not.                     *)
(***************************************************************************)
InitUpscale ==
    /\ CardsAtProduction
    /\ elevenLabsKey = TRUE
    /\ falAiKey \in BOOLEAN

NextUpscale ==
    \/ \E idx \in 1..MaxCards : handleUpscaleImage(idx)
    \/ \E ok \in BOOLEAN : UpscaleImageDone(ok)
    \/ handleUpscaleAllImages
    \/ \E ok \in BOOLEAN : UpscaleDone(ok)
    \/ DismissError

SpecUpscale == InitUpscale /\ [][NextUpscale]_vars

(***************************************************************************)
(* SpecSeg: splitAndGroupSentences as a function of its two arguments.     *)
(***************************************************************************)
\* the App after construction, nothing typed and nothing in flight
AppConstructed ==
    /\ currentStep = 1
    /\ introScript = <<>>
    /\ bodyScript = <<>>
    /\ generatedMedia = <<>>
    /\ googleApiKey = TRUE
    /\ elevenLabsKey = TRUE
    /\ falAiKey = TRUE
    /\ loadingType = "none"
    /\ error = NULL
    /\ showSettings = FALSE
    /\ controllers = <<>>
    /\ abortControllerRef = 0
    /\ projects = <<>>
    /\ plan = IdlePlan
    /\ prod = IdleProd
    /\ single = IdleSingle
    /\ tts = IdleTts
    /\ ups = IdleUps
    /\ ops = IdleOps
    /\ zip = IdleZip
    /\ downloads = <<>>
    /\ job = IdleJob
    /\ world = [ failImage |-> {}, upscaled |-> 0 ]
    /\ hist = IdleHist

InitSeg ==
    /\ AppConstructed
    /\ call = IdleCall
    /\ parse = IdleParse
    /\ \E text \in SegTexts, maxGroupSize \in 1..MaxGroupSize :
         seg = [IdleSeg EXCEPT !.text = text, !.maxGroupSize = maxGroupSize]

NextSeg == EvalSegmenter

SpecSeg == InitSeg /\ [][NextSeg]_vars

(***************************************************************************)
(* SpecCall: one invocation of generateImage; every call of the image      *)
(* service may settle in any of CallOutcomes.                              *)
(***************************************************************************)
InitCall ==
    /\ AppConstructed
    /\ call = IdleCall
    /\ seg = IdleSeg
    /\ parse = IdleParse

NextCall ==
    \/ generateImage
    \/ \E outcome \in CallOutcomes : ContentSettles(outcome)
    \/ RetryTimerFires

SpecCall == InitCall /\ [][NextCall]_vars

(***************************************************************************)
(* SpecRun: a whole run.  The scripts are typed at step 1, planned,        *)
(* confirmed, an image is generated at step 3, the user goes back and      *)
(* plans again, or loads a project that an earlier save has stored.        *)
(***************************************************************************)
InitRun ==
    /\ currentStep = 1
    /\ introScript = TextOf(<<3>>)
    /\ bodyScript = <<>>
    /\ generatedMedia = <<>>
    /\ googleApiKey = TRUE
    /\ elevenLabsKey = TRUE
    /\ falAiKey = TRUE
    /\ loadingType = "none"
    /\ error = NULL
    /\ showSettings = FALSE
    /\ controllers = <<>>
    /\ abortControllerRef = 0
    /\ projects = <<>>
    /\ plan = IdlePlan
    /\ prod = IdleProd
    /\ single = IdleSingle
    /\ tts = IdleTts
    /\ ups = IdleUps
    /\ ops = IdleOps
    /\ zip = IdleZip
    /\ downloads = <<>>
    /\ parse = IdleParse
    /\ job = IdleJob
    /\ call = IdleCall
    /\ seg = IdleSeg
    /\ world = [ failImage |-> {}, upscaled |-> 0 ]
    /\ hist = IdleHist

\* the answers of the analysis service that decide the number of scenes
RunOutcomes == {"throw", "echo", "short"}

NextRun ==
    \/ EditIntroScript
    \/ handleAnalyzeAndPlan
    \/ \E outcome \in RunOutcomes : AnalyzerBatch(outcome)
    \/ handleConfirmPlan
    \/ PreviousStep
    \/ \E idx \in 1..MaxScenes : handleGenerateSingleImage(idx)
    \/ SingleImageDone
    \/ \E p \in Range(projects) : handleHistoryLoad(p)
    \/ DismissError

SpecRun == InitRun /\ [][NextRun]_vars

(***************************************************************************)
(* SpecZip: the production step with the packager.  The store holds any    *)
(* number of scenes up to MaxCards, each with or without its image and its *)
(* audio; every fetch resolves or rejects, generateAsync settles.          *)
(***************************************************************************)
ZipKinds == SUBSET {"image", "audio"}

InitZip ==
    /\ currentStep = 3
    /\ introScript = SomeText
    /\ bodyScript = <<>>
    /\ \E n \in 0..MaxCards : \E kinds \in [1..n -> ZipKinds] :
         generatedMedia = [k \in 1..n |-> CardOf(k, kinds[k])]
    /\ googleApiKey = TRUE
    /\ elevenLabsKey = TRUE
    /\ falAiKey = TRUE
    /\ loadingType = "none"
    /\ error = NULL
    /\ showSettings = FALSE
    /\ controllers = <<FALSE>>
    /\ abortControllerRef = 1
    /\ projects = <<>>
    /\ plan = IdlePlan
    /\ prod = IdleProd
    /\ single = IdleSingle
    /\ tts = IdleTts
    /\ ups = IdleUps
    /\ ops = IdleOps
    /\ call = IdleCall
    /\ seg = IdleSeg
    /\ zip = IdleZip
    /\ downloads = <<>>
    /\ parse = IdleParse
    /\ job = IdleJob
    /\ world = [ failImage |-> {}, upscaled |-> 0 ]
    /\ hist = ReachesProduction(IdleHist, generatedMedia)

NextZip ==
    \/ handleFinalZipDownload
    \/ \E resolved \in BOOLEAN : FetchSettles(resolved)
    \/ \E ok \in BOOLEAN : ArchiveGenerated(ok)
    \/ DismissError

SpecZip == InitZip /\ [][NextZip]_vars

(***************************************************************************)
(* SpecOps: the production step with the four single-scene operations of a *)
(* card: image, upscale, video and TTS.  Every scene holds its image; the   *)
(* image service fails for the scenes of world.failImage, every other      *)
(* external call succeeds or fails.  The user clicks a card only while the *)
(* loading modal is not shown.                                             *)
(***************************************************************************)
InitOps ==
    /\ currentStep = 3
    /\ introScript = SomeText
    /\ bodyScript = <<>>
    /\ \E n \in 1..MaxCards :
         /\ generatedMedia = [k \in 1..n |-> CardOf(k, {"image"})]
         /\ \E f \in SUBSET (1..n) : world = [ failImage |-> f, upscaled |-> 0 ]
    /\ googleApiKey = TRUE
    /\ elevenLabsKey = TRUE
    /\ falAiKey = TRUE
    /\ loadingType = "none"
    /\ error = NULL
    /\ showSettings = FALSE
    /\ controllers = <<FALSE>>
    /\ abortControllerRef = 1
    /\ projects = <<>>
    /\ plan = IdlePlan
    /\ prod = IdleProd
    /\ single = IdleSingle
    /\ tts = IdleTts
    /\ ups = IdleUps
    /\ ops = IdleOps
    /\ call = IdleCall
    /\ seg = IdleSeg
    /\ zip = IdleZip
    /\ downloads = <<>>
    /\ parse = IdleParse
    /\ job = IdleJob
    /\ hist = ReachesProduction(IdleHist, generatedMedia)

\* line 591: the loading modal covers the cards while loadingType is not 'none'
OverlayHidden == loadingType = "none"

NextOps ==
    \/ \E idx \in 1..MaxCards : OverlayHidden /\ handleGenerateSingleImage(idx)
    \/ SingleImageDone
    \/ \E idx \in 1..MaxCards : OverlayHidden /\ handleUpscaleImage(idx)
    \/ \E ok \in BOOLEAN : UpscaleImageDone(ok)
    \/ \E idx \in 1..MaxCards : OverlayHidden /\ handleGenerateVideo(idx)
    \/ \E ok \in BOOLEAN : VideoDone(ok)
    \/ \E idx \in 1..MaxCards : OverlayHidden /\ handleGenerateTTS(idx)
    \/ \E ok \in BOOLEAN : TtsSingleDone(ok)

SpecOps == InitOps /\ [][NextOps]_vars

(***************************************************************************)
(* SpecNorm: the normalization of one parsed answer, any array of at most  *)
(* MaxItems items of ParsedItems.                                          *)
(***************************************************************************)
InitNorm ==
    /\ AppConstructed
    /\ call = IdleCall
    /\ seg = IdleSeg
    /\ \E data \in ParsedArrays :
         parse = [IdleParse EXCEPT !.pc = "parsed", !.value = data]

NextNorm == NormalizeResponse

SpecNorm == InitNorm /\ [][NextNorm]_vars

(***************************************************************************)
(* SpecParse: robustJsonParse as a function of its argument, any text of   *)
(* at most MaxJsonLen characters.                                          *)
(***************************************************************************)
InitParse ==
    /\ AppConstructed
    /\ call = IdleCall
    /\ seg = IdleSeg
    /\ \E text \in JsonTexts : parse = [IdleParse EXCEPT !.text = text]

NextParse == EvalRobustJsonParse

SpecParse == InitParse /\ [][NextParse]_vars

(***************************************************************************)
(* SpecProd: the production step with every operation of the step: the     *)
(* three batches, the four operations of a card, the packager and the      *)
(* error modal.  Each scene holds its image or nothing; the image service  *)
(* fails for scene 1 or for none; the user starts at most MaxProdOps        *)
(* operations, each while the loading modal is not shown.                  *)
(***************************************************************************)
MaxProdOps == 2

InitProd ==
    /\ currentStep = 3
    /\ introScript = SomeText
    /\ bodyScript = <<>>
    /\ \E n \in 1..MaxCards : \E kinds \in [1..n -> {{}, {"image"}}] :
         generatedMedia = [k \in 1..n |-> CardOf(k, kinds[k])]
    /\ \E f \in {{}, {1}} : world = [ failImage |-> f, upscaled |-> 0 ]
    /\ googleApiKey = TRUE
    /\ elevenLabsKey = TRUE
    /\ falAiKey = TRUE
    /\ loadingType = "none"
    /\ error = NULL
    /\ showSettings = FALSE
    /\ controllers = <<FALSE>>
    /\ abortControllerRef = 1
    /\ projects = <<>>
    /\ plan = IdlePlan
    /\ prod = IdleProd
    /\ single = IdleSingle
    /\ tts = IdleTts
    /\ ups = IdleUps
    /\ ops = IdleOps
    /\ call = IdleCall
    /\ seg = IdleSeg
    /\ zip = IdleZip
    /\ downloads = <<>>
    /\ parse = IdleParse
    /\ job = IdleJob
    /\ hist = ReachesProduction(IdleHist, generatedMedia)

ImageBatchStep == handleStartProduction \/ PacingDone \/ ImageDone

TtsBatchStep ==
    \/ handleGenerateAllTTS
    \/ \E ok \in BOOLEAN : TtsDone(ok)
    \/ TtsDelayDone

UpscaleBatchStep == handleUpscaleAllImages \/ \E ok \in BOOLEAN : UpscaleDone(ok)

ZipStep ==
    \/ handleFinalZipDownload
    \/ \E resolved \in BOOLEAN : FetchSettles(resolved)
    \/ \E ok \in BOOLEAN : ArchiveGenerated(ok)

\* the operations the user has started so far
Started(h) ==
    h.batchRuns + h.ttsRuns + h.upsRuns + h.singleRuns + h.cardClicks + h.zipRuns

\* the user may start an operation: the modal is not shown, the budget is not spent
MayClick == OverlayHidden /\ Started(hist) < MaxProdOps

NextProd ==
    \/ MayClick /\ handleStartProduction
    \/ PacingDone
    \/ ImageDone
    \/ \E idx \in 1..MaxCards : MayClick /\ handleGenerateSingleImage(idx)
    \/ SingleImageDone
    \/ MayClick /\ handleGenerateAllTTS
    \/ \E ok \in BOOLEAN : TtsDone(ok)
    \/ TtsDelayDone
    \/ MayClick /\ handleUpscaleAllImages
    \/ \E ok \in BOOLEAN : UpscaleDone(ok)
    \/ \E idx \in 1..MaxCards : MayClick /\ handleUpscaleImage(idx)
    \/ \E ok \in BOOLEAN : UpscaleImageDone(ok)
    \/ \E idx \in 1..MaxCards : MayClick /\ handleGenerateVideo(idx)
    \/ \E ok \in BOOLEAN : VideoDone(ok)
    \/ \E idx \in 1..MaxCards : MayClick /\ handleGenerateTTS(idx)
    \/ \E ok \in BOOLEAN : TtsSingleDone(ok)
    \/ MayClick /\ handleFinalZipDownload
    \/ \E resolved \in BOOLEAN : FetchSettles(resolved)
    \/ \E ok \in BOOLEAN : ArchiveGenerated(ok)
    \/ DismissError

SpecProd == InitProd /\ [][NextProd]_vars

(***************************************************************************)
(* SpecVideo: the video operation of a card with the loop of               *)
(* generateVideoFromImage.  SpecVideoFair adds that a pending answer       *)
(* arrives, a pending timer fires and a settled call is handled.           *)
(***************************************************************************)
InitVideo ==
    /\ CardsAtProduction
    /\ elevenLabsKey = TRUE
    /\ falAiKey = TRUE

NextVideo ==
    \/ \E idx \in 1..MaxCards : handleGenerateVideo(idx)
    \/ generateVideoFromImage
    \/ OperationSettles
    \/ PollTimerFires
    \/ VideoCallSettles
    \/ DismissError

SpecVideo == InitVideo /\ [][NextVideo]_vars

SpecVideoFair ==
    /\ SpecVideo
    /\ WF_vars(generateVideoFromImage)
    /\ WF_vars(OperationSettles)
    /\ WF_vars(PollTimerFires)
    /\ WF_vars(VideoCallSettles)

(***************************************************************************)
(* SpecLoad: the production step of Spec with the history list: the image  *)
(* batch, the single image, and the load of a project that an earlier save *)
(* has stored.                                                             *)
(***************************************************************************)
NextLoad ==
    \/ handleStartProduction
    \/ PacingDone
    \/ ImageDone
    \/ \E idx \in 1..MaxScenes : handleGenerateSingleImage(idx)
    \/ SingleImageDone
    \/ \E p \in Range(projects) : handleHistoryLoad(p)

SpecLoad == Init /\ [][NextLoad]_vars

(***************************************************************************)
(* Properties of the image batch (checked under Spec).                     *)
(***************************************************************************)
Url(idx) == Find(generatedMedia, idx).mediaUrl

AttemptedScenes == {hist.attempts[k].scene : k \in DOMAIN hist.attempts}

\* C1: an image batch that ran to its end without cancellation leaves a non-empty
\* mediaUrl on exactly the eligible scenes whose synthesis does not fail, an empty
\* mediaUrl on every scene whose synthesis always fails, and ends normally: the
\* busy indicator is back to 'none' (unless a single-scene operation still runs).
BatchPartialFailure ==
    (prod.pc = "done" /\ ~hist.cancelled) =>
        /\ \A i \in hist.eligible : (Url(i) # "") <=> ImageSucceeds(i)
        /\ \A i \in world.failImage : Url(i) = ""
        /\ (single.pc = "idle" => loadingType = "none")

\* C1 witness: a batch ended in which a scene failed and a later scene got its image
BatchPartialFailureWitness ==
    /\ prod.pc = "done"
    /\ ~hist.cancelled
    /\ \E f \in Range(hist.failed) : \E i \in hist.eligible : i > f /\ Url(i) # ""

\* C2: when a scene of the batch failed, the error state is non-null once the batch
\* has completed and holds the message of the last failure (no other operation ran).
SurfacedBatchError ==
    (prod.pc = "done" /\ hist.failed # <<>> /\ hist.singleRuns = 0) =>
        error = ImageError(hist.failed[Len(hist.failed)])

\* C3: once cancellation was requested while scene k was in work, no scene after k
\* gets an attempt in that batch; the call of scene k is still made and finishes,
\* and its result is written to scene k.
CancelStopsBatch ==
    hist.cancelAt # 0 =>
        /\ \A s \in AttemptedScenes : s <= hist.cancelAt
        /\ prod.pc = "done" =>
              /\ hist.cancelAt \in AttemptedScenes
              /\ ImageSucceeds(hist.cancelAt) => Url(hist.cancelAt) = ImageUrl

\* C3 witness: a cancelled batch ended with the image of scene k written and a later
\* eligible scene, whose synthesis would have succeeded, left without attempt
CancelStopsBatchWitness ==
    /\ prod.pc = "done"
    /\ hist.cancelAt # 0
    /\ Url(hist.cancelAt) = ImageUrl
    /\ \E i \in hist.eligible :
          i > hist.cancelAt /\ ImageSucceeds(i) /\ i \notin AttemptedScenes /\ Url(i) = ""

\* C5: attempts go only to scenes whose mediaUrl was empty when the batch started,
\* in strictly ascending index order (hence at most one per scene), one at a time,
\* and a scene is attempted only after every earlier eligible scene was.
BatchSelectionOrder ==
    /\ AttemptedScenes \subseteq hist.eligible
    /\ \A j, k \in DOMAIN hist.attempts :
          j < k => hist.attempts[j].scene < hist.attempts[k].scene
    /\ \A k \in DOMAIN hist.attempts : \A i \in hist.eligible :
          i < hist.attempts[k].scene => \E j \in 1..(k - 1) : hist.attempts[j].scene = i
    /\ Len(hist.attempts) - hist.finished \in {0, 1}
    /\ (Len(hist.attempts) - hist.finished = 1) <=> (prod.pc = "gen")

\* C5 witness: a batch ended after two attempts, with a scene that already had an image
BatchSelectionOrderWitness ==
    /\ prod.pc = "done"
    /\ Len(hist.attempts) >= 2
    /\ hist.eligible # Indices(generatedMedia)

\* C6: the pacing delay precedes every attempt of a batch but the first.
PacingBeforeAllButFirst ==
    \A k \in DOMAIN hist.attempts : hist.attempts[k].delayed <=> (k > 1)

\* C7: an image batch that ran to its end without cancellation has pushed exactly
\* one snapshot, also when scenes failed; a batch in which cancellation was
\* requested has pushed none; nothing is pushed before the batch ends.
AutoSaveOnce ==
    /\ prod.pc = "done" => hist.saves = (IF hist.cancelled THEN 0 ELSE 1)
    /\ prod.pc \in {"delay", "gen"} => hist.saves = 0

\* C7 witness: a batch in which every eligible scene failed has saved once
AutoSaveOnceWitness ==
    /\ prod.pc = "done"
    /\ ~hist.cancelled
    /\ hist.eligible # {}
    /\ hist.eligible \subseteq world.failImage
    /\ hist.saves = 1
    /\ Len(projects) = 1

\* C8: the snapshot an auto-save pushes holds the scene collection as it is in the
\* store at the moment of the save.
SnapshotIsStore ==
    [][projects' # projects =>
          projects'[Len(projects')].media = generatedMedia']_vars

(***************************************************************************)
(* Properties of the TTS and upscale batches (checked under SpecAux).      *)
(***************************************************************************)
\* C4: in the TTS batch and in the upscale batch, once the user has requested
\* cancellation no further scene receives a generation attempt in that batch.
CancelStopsOtherBatches == ~hist.ttsLate /\ ~hist.upsLate

\* the part of C4 about the TTS batch alone
CancelStopsTtsBatch == ~hist.ttsLate

\* the part of C4 about the upscale batch alone
CancelStopsUpscaleBatch == ~hist.upsLate

(***************************************************************************)
(* Properties of the planning (checked under SpecPlan).                    *)
(***************************************************************************)
AllBlank(s) == \A k \in DOMAIN s : s[k] \in Whitespace

PreconditionFails ==
    (AllBlank(introScript) /\ AllBlank(bodyScript)) \/ ~googleApiKey

\* C9: a plan request made when both texts are empty or blank, or when the Gemini
\* key is missing, sets an error and ends at once: the busy indicator never shows
\* 'planning', no analysis call is issued, the store and the step are unchanged.
PlanPrecondition ==
    /\ [](PreconditionFails => (loadingType # "planning" /\ hist.calls = 0))
    /\ [][(hist.planRuns' # hist.planRuns /\ PreconditionFails) =>
             /\ error' \in {ErrNoScript, ErrNoKey}
             /\ loadingType' = loadingType
             /\ plan' = IdlePlan
             /\ generatedMedia' = generatedMedia
             /\ currentStep' = currentStep]_vars

\* C9 witness: a request with blank, non-empty texts and a key was refused
PlanPreconditionWitness ==
    /\ hist.planRuns > 0
    /\ googleApiKey
    /\ introScript # <<>>
    /\ AllBlank(introScript) /\ AllBlank(bodyScript)
    /\ error = ErrNoScript
    /\ currentStep = 1

NumBatches(segments) == (Len(segments) + batchSize - 1) \div batchSize

\* C10: while an analysis runs the store is not written; a failing batch leaves the
\* store as it was, the step at 1, sets the error and resets the busy indicator;
\* the store is written only by the step that ends an analysis all of whose batches
\* succeeded.
PlanAllOrNothing ==
    [][plan.pc = "analyze" =>
          /\ hist.planFailed' =>
                /\ generatedMedia' = generatedMedia
                /\ currentStep' = 1
                /\ error' # NULL
                /\ loadingType' = "none"
                /\ plan' = IdlePlan
          /\ plan'.pc = "analyze" => generatedMedia' = generatedMedia
          /\ generatedMedia' # generatedMedia =>
                /\ ~hist.planFailed'
                /\ hist.okBatches' = NumBatches(plan.segments)]_vars

\* C10 witness: an analysis failed after a first batch succeeded, and the store still
\* holds the scenes of the plan made before
PlanAllOrNothingWitness ==
    /\ hist.planFailed
    /\ hist.okBatches >= 1
    /\ plan.pc = "idle"
    /\ generatedMedia # <<>>
    /\ currentStep = 1
    /\ error # NULL
    /\ loadingType = "none"

(***************************************************************************)
(* Properties of the scene indices (checked under SpecRun).                *)
(***************************************************************************)
\* the index values of the store are 1..N without repetition
IndicesContiguous ==
    /\ Indices(generatedMedia) = 1..Len(generatedMedia)
    /\ \A j, k \in DOMAIN generatedMedia :
         generatedMedia[j].index = generatedMedia[k].index => j = k

\* a step of handleAnalyzeAndPlan or of its analysis, or a load from the history
ReplacesRun ==
    \/ hist'.planRuns # hist.planRuns
    \/ plan.pc = "analyze" /\ plan'.pc = "idle"
    \/ hist'.loads # hist.loads

\* C11 as stated: in every reachable state the scene indices are unique and
\* contiguous 1..N, and once step 3 has been reached the number N of scenes never
\* changes again, whatever the user does afterwards (navigation, planning again,
\* loading from the history, production).
SceneIndexInvariant ==
    /\ IndicesContiguous
    /\ hist.confirmedN # -1 => Len(generatedMedia) = hist.confirmedN

\* C11 amended: in every reachable state the scene indices are unique and contiguous
\* 1..N; once step 3 has been reached, N changes only when a new analysis commits its
\* plan or a project is loaded from the history, which replace the whole store; no
\* navigation and no production step changes N.
SceneIndexAmended ==
    /\ []IndicesContiguous
    /\ [][(hist.confirmedN # -1 /\ Len(generatedMedia') # Len(generatedMedia))
            => ReplacesRun]_vars

\* after a confirmed plan for which an image was generated and saved, a second analysis has replaced
\* the store by one of another length
SceneIndexAmendedWitness ==
    /\ hist.confirmedN > 0
    /\ projects # <<>>
    /\ hist.planRuns = 2
    /\ hist.loads = 0
    /\ Len(generatedMedia) > 0
    /\ Len(generatedMedia) # hist.confirmedN

(***************************************************************************)
(* Properties of the analysis results (checked under SpecPlan).            *)
(***************************************************************************)
\* analyzeSegmentsForPrompts returns and handleAnalyzeAndPlan commits the plan
AnalysisReturns ==
    /\ plan.pc = "analyze"
    /\ plan'.pc = "idle"
    /\ ~hist'.planFailed

\* C12: whatever array the analysis service answers to a batch, an analysis that
\* succeeds returns exactly one result per input text, so the committed plan has as
\* many scenes as the segmenter produced texts, and isIntro is true exactly for the
\* scenes of the texts that came from the hook.
AnalyzerLengthAndOrder ==
    [][AnalysisReturns =>
          /\ Len(generatedMedia') = Len(plan.segments)
          /\ {k \in DOMAIN generatedMedia' : generatedMedia'[k].isIntro}
                = 1..plan.introCount]_vars

\* C13: after an analysis that succeeds, the originalScriptSegment of scene i is,
\* character for character, the i-th text the segmenter produced, whatever the
\* analysis service answered.
VerbatimSceneText ==
    [][AnalysisReturns =>
          \A k \in DOMAIN generatedMedia' :
             /\ k <= Len(plan.segments)
             /\ generatedMedia'[k].originalScriptSegment = plan.segments[k]]_vars

(***************************************************************************)
(* Properties of splitAndGroupSentences (checked under SpecSeg).           *)
(***************************************************************************)
\* the paragraphs of a text that are not blank
ParagraphsOf(text) ==
    IF text = <<>> THEN <<>>
    ELSE SelectSeq(SplitParagraphs(text), LAMBDA x : trim(x) # <<>>)

\* ceil(k / size)
CeilDiv(k, size) == (k + size - 1) \div size

\* the j-th run of `size` consecutive sentences; the last run holds the remainder
SentenceRun(sentences, size, j) ==
    SubSeq(sentences, (j - 1) * size + 1,
           IF j * size < Len(sentences) THEN j * size ELSE Len(sentences))

\* the scenes of one paragraph: ceil(k / size) runs, each joined by a space
ScenesOfParagraph(paragraph, size) ==
    LET sentences == cleanedSentences(paragraph) IN
    [j \in 1..CeilDiv(Len(sentences), size) |->
        JoinSpace(SentenceRun(sentences, size, j))]

RECURSIVE ScenesOfParagraphs(_, _)
ScenesOfParagraphs(paragraphs, size) ==
    IF paragraphs = <<>> THEN <<>>
    ELSE ScenesOfParagraph(Head(paragraphs), size)
            \o ScenesOfParagraphs(Tail(paragraphs), size)

\* C14: for every text and every group size G >= 1, a paragraph of k >= 1 sentences
\* yields exactly ceil(k / G) scenes made of its consecutive sentences in order, the
\* first ceil(k / G) - 1 holding exactly G sentences and the last between 1 and G;
\* the scenes of the paragraphs follow one another in text order, so none holds
\* sentences of two paragraphs; no scene is empty; an empty or blank text yields the
\* empty sequence.
SegmenterGrouping ==
    seg.pc = "done" =>
        /\ seg.out = ScenesOfParagraphs(ParagraphsOf(seg.text), seg.maxGroupSize)
        /\ \A p \in Range(ParagraphsOf(seg.text)) :
             LET k == Len(cleanedSentences(p))
                 n == CeilDiv(k, seg.maxGroupSize)
             IN  \A j \in 1..n :
                    LET size == Len(SentenceRun(cleanedSentences(p), seg.maxGroupSize, j))
                    IN  IF j < n THEN size = seg.maxGroupSize
                        ELSE size \in 1..seg.maxGroupSize
        /\ \A k \in DOMAIN seg.out : seg.out[k] # <<>>
        /\ trim(seg.text) = <<>> => seg.out = <<>>

\* two paragraphs of three sentences and of one sentence, grouped by two: three
\* scenes, the second holding the one sentence left of the first paragraph
SegmenterGroupingWitness ==
    /\ seg.pc = "done"
    /\ seg.maxGroupSize = 2
    /\ Len(ParagraphsOf(seg.text)) = 2
    /\ Len(cleanedSentences(ParagraphsOf(seg.text)[1])) = 3
    /\ Len(seg.out) = 3
    /\ seg.out[2] = <<"a", ".">>

(***************************************************************************)
(* Properties of generateImage (checked under SpecCall).                   *)
(***************************************************************************)
\* the external calls issued so far: those settled and the one in flight
CallsIssued == Len(call.log) + (IF call.pc = "calling" THEN 1 ELSE 0)

\* C15: one invocation of generateImage issues at most 4 calls of the image service
\* (1 and 3 retries) and waits the fixed delay before each retry; it returns the
\* image of the first call that succeeds and calls no more; when all 4 calls fail
\* it throws the error of the last call.
BoundedImageRetry ==
    /\ CallsIssued <= 4
    /\ CallsIssued >= 1 => Len(call.delays) = CallsIssued - 1
    /\ \A k \in DOMAIN call.delays : call.delays[k] = RetryDelayMs
    /\ \A k \in DOMAIN call.log :
         call.log[k] = "payload" =>
            /\ k = Len(call.log)
            /\ call.pc = "returned"
            /\ call.result = DataUrl(k)
    /\ (Len(call.log) = 4 /\ call.log[4] # "payload") =>
            /\ call.pc = "threw"
            /\ call.thrown = IF call.log[4] \in Rejections THEN call.log[4]
                             ELSE NoImageError

\* the first three calls were rejected, the fourth returned the image
BoundedImageRetryWitness ==
    /\ call.pc = "returned"
    /\ Len(call.log) = 4
    /\ call.log[1] = "network"
    /\ call.log[3] = "quota"
    /\ call.result = DataUrl(4)

\* C16: a response without image payload counts as a failed attempt: it is retried
\* after the fixed delay, up to 3 more attempts, and the missing-image error is
\* thrown only when every attempt has yielded no image.
MissingPayloadRetried ==
    /\ (call.pc = "threw" /\ call.thrown = NoImageError) => Len(call.log) = Retries + 1
    /\ \A k \in DOMAIN call.log :
         (call.log[k] = "empty" /\ k <= Retries) =>
            \/ Len(call.log) > k
            \/ call.pc \in {"waiting", "calling"}

(***************************************************************************)
(* Properties of the upscale operations (checked under SpecUpscale).       *)
(***************************************************************************)
UrlFields == {"mediaUrl", "videoUrl", "audioUrl"}

\* the upscaleImage call of scene idx settles in this step: the one of a card, or the
\* one of the batch
UpscaleSettles(idx) ==
    \/ ops.upscale.pc = "gen" /\ ops'.upscale.pc = "idle" /\ ops.upscale.index = idx
    \/ ups.pc = "gen" /\ ups' # ups /\ ups.items[ups.pos].index = idx

\* an upscale is requested in this step, on a card or for the batch
UpscaleRequested ==
    \/ hist'.cardClicks # hist.cardClicks
    \/ hist'.upsRuns # hist.upsRuns

\* C17: for a scene whose mediaUrl is X, an upscale that succeeds (of the card or of
\* the batch) leaves its mediaUrl equal to the new resource and no field of the scene
\* still holds X; an upscale that fails leaves mediaUrl equal to X; an upscale
\* requested without the Fal.ai key issues no external call and changes no scene.
UpscaleReplacesInPlace ==
    [][/\ \A idx \in Indices(generatedMedia) :
            UpscaleSettles(idx) =>
               LET X     == Find(generatedMedia, idx).mediaUrl
                   scene == Find(generatedMedia', idx)
               IN  IF hist'.settled.ok
                   THEN /\ scene.mediaUrl = UpscaledUrl(world'.upscaled)
                        /\ \A f \in UrlFields : scene[f] # X
                   ELSE scene.mediaUrl = X
       /\ (UpscaleRequested /\ ~falAiKey) =>
               /\ generatedMedia' = generatedMedia
               /\ hist'.requests = hist.requests
               /\ ops' = ops
               /\ ups' = ups]_vars

\* the batch and a card have each upscaled scene 1 with success, and the scene holds
\* the second resource and not the first
UpscaleReplacesInPlaceWitness ==
    /\ world.upscaled = 2
    /\ hist.upsRuns = 1
    /\ hist.cardClicks = 1
    /\ hist.settled = [ kind |-> "upscale", index |-> 1, ok |-> TRUE ]
    /\ Find(generatedMedia, 1).mediaUrl = UpscaledUrl(2)
    /\ Len(generatedMedia) = 1

(***************************************************************************)
(* Properties of the card operations (checked under SpecCard).             *)
(***************************************************************************)
\* the step issues no external call and leaves the Scene Store as it is
NothingRequested ==
    /\ generatedMedia' = generatedMedia
    /\ hist'.requests = hist.requests

\* a video request on a scene that has its video is skipped
VideoSkipped ==
    \A idx \in Indices(generatedMedia) :
       (handleGenerateVideo(idx) /\ Find(generatedMedia, idx).videoUrl # "")
          => NothingRequested

\* a TTS request on a scene that has its audio is skipped
TtsSkipped ==
    \A idx \in Indices(generatedMedia) :
       (handleGenerateTTS(idx) /\ Find(generatedMedia, idx).audioUrl # "")
          => NothingRequested

\* C18: a card's video request on a scene whose videoUrl is populated, and a card's
\* TTS request on a scene whose audioUrl is populated, issue no external call and
\* leave the Scene Store unchanged.
IdempotentSkip == [][VideoSkipped /\ TtsSkipped]_vars

\* the field each card operation writes its result to
ResultField == [ upscale |-> "mediaUrl", video |-> "videoUrl", audio |-> "audioUrl" ]

\* the card operation `kind` of scene idx settles with success in this step
CardOpSucceeds(kind, idx) ==
    /\ ops[kind].pc = "gen"
    /\ ops'[kind].pc = "idle"
    /\ ops[kind].index = idx
    /\ hist'.settled = [ kind |-> kind, index |-> idx, ok |-> TRUE ]

\* C20: two card operations on the same scene that write different fields (video and
\* TTS, upscale and video, ...) may interleave in any order: each one that succeeds
\* writes its result into its own field, and a field of a scene changes only when the
\* operation that owns it succeeds for that scene, so after both have finished both
\* results are present and neither write has reverted the other's field.
ConcurrentCardOps ==
    [][\A k \in DOMAIN generatedMedia : \A kind \in DOMAIN ResultField :
          LET idx == generatedMedia[k].index
              f   == ResultField[kind]
          IN  /\ CardOpSucceeds(kind, idx) => generatedMedia'[k][f] # ""
              /\ generatedMedia'[k][f] # generatedMedia[k][f]
                    => CardOpSucceeds(kind, idx)]_vars

\* the video and the TTS of scene 1 were in flight together; both have finished, the
\* TTS last, and the scene holds its video and its audio
ConcurrentCardOpsWitness ==
    /\ hist.overlap = {"video", "audio"}
    /\ \A kind \in DOMAIN ops : ops[kind].pc = "idle"
    /\ hist.settled = [ kind |-> "audio", index |-> 1, ok |-> TRUE ]
    /\ Find(generatedMedia, 1).videoUrl = VideoUrl
    /\ Find(generatedMedia, 1).audioUrl = AudioUrl

(***************************************************************************)
(* Properties of the TTS batch (checked under SpecAux).                    *)
(***************************************************************************)
\* C19: in the TTS batch the failure of one scene is caught and the batch goes on:
\* every later scene without audio still gets its synthesis attempt, and the scenes
\* whose synthesis succeeded hold their audio.
TtsBatchContinues ==
    [][/\ (TtsDone(FALSE)
            /\ NextWithoutAudio(tts.media, tts.pos + 1) <= Len(tts.media))
              => tts'.pc # "idle"
       /\ TtsDone(TRUE)
              => Find(generatedMedia', tts.media[tts.pos].index).audioUrl # ""]_vars

(***************************************************************************)
(* Properties of the packager (checked under SpecZip).                     *)
(***************************************************************************)
\* the resources that the scenes captured at the click hold
Populated(media) ==
    {<<x[1].index, x[2]>> :
        x \in {y \in Range(media) \X {"image", "audio"} : UrlOf(y[1], y[2]) # ""}}

\* C21: the archive handed to the browser holds images/scene-<index>.png exactly for
\* the scenes with a mediaUrl whose fetch resolved and audio/scene-<index>.mp3 exactly
\* for the scenes with an audioUrl whose fetch resolved; a rejected fetch sets no error
\* and does not end the packaging; when the archive is generated the download is
\* triggered and loadingType returns to 'none'.
PackagerContents ==
    [][/\ FetchSettles(FALSE) =>
            (error' = error /\ zip'.pc # "idle" /\ loadingType' = "zip"
             /\ downloads' = downloads)
       /\ ArchiveGenerated(TRUE) =>
            /\ hist.fetched \cup hist.rejected = Populated(zip.media)
            /\ downloads' = Append(downloads,
                   {FileName(r[2], r[1]) : r \in Populated(zip.media) \cap hist.fetched})
            /\ loadingType' = "none"
            /\ error' = error
       /\ ArchiveGenerated(FALSE) =>
            (loadingType' = "none" /\ downloads' = downloads)]_vars

\* an archive was downloaded with a file in it although a fetch was rejected and a
\* scene had no image
PackagerContentsWitness ==
    /\ Len(downloads) = 1
    /\ downloads[1] # {}
    /\ hist.rejected # {}
    /\ \E k \in DOMAIN generatedMedia : generatedMedia[k].mediaUrl = ""
    /\ loadingType = "none"
    /\ error = NULL

(***************************************************************************)
(* Properties of the single-scene operations (checked under SpecOps).      *)
(***************************************************************************)
\* a card operation other than the image one is clicked or settles
OtherCardStep ==
    \/ \E idx \in 1..MaxCards :
         handleUpscaleImage(idx) \/ handleGenerateVideo(idx) \/ handleGenerateTTS(idx)
    \/ \E ok \in BOOLEAN : UpscaleImageDone(ok) \/ VideoDone(ok) \/ TtsSingleDone(ok)

\* C22: a single-scene image generation hands one snapshot to saveProject when it
\* succeeds and none when it fails; the single-scene upscale, video and TTS operations
\* hand none, whether they succeed or fail.
AutoSaveAsymmetry ==
    [][/\ SingleImageDone =>
            Len(projects') = Len(projects) + (IF ImageSucceeds(single.index) THEN 1 ELSE 0)
       /\ (\E idx \in 1..MaxCards : handleGenerateSingleImage(idx)) =>
            projects' = projects
       /\ OtherCardStep => projects' = projects]_vars

\* one image generation has succeeded and saved, and a video generation has succeeded
\* after it without a save
AutoSaveAsymmetryWitness ==
    /\ Len(projects) = 1
    /\ hist.singleRuns = 1
    /\ single.pc = "idle"
    /\ hist.settled.kind = "video"
    /\ hist.settled.ok

(***************************************************************************)
(* Properties of the response normalization (checked under SpecNorm).      *)
(***************************************************************************)
\* the first of the values that is present, the fallback when none is
FirstPresent(values, fallback, absent) ==
    IF \E k \in DOMAIN values : values[k] # absent
    THEN values[CHOOSE k \in DOMAIN values :
                    /\ values[k] # absent
                    /\ \A j \in 1..(k - 1) : values[j] = absent]
    ELSE fallback

\* C23: for every parsed response array the normalization yields one record per item
\* in order; its scene text is the first present of scriptSegment, korean_segment and
\* text, else the fixed fallback; a missing prompt is replaced by its fallback and the
\* stage does not fail.
NormalizationTotal ==
    parse.pc \in {"normalized", "failed"} =>
        /\ parse.thrown = NULL
        /\ Len(parse.out) = Len(parse.value)
        /\ \A k \in DOMAIN parse.value :
             LET item == parse.value[k] IN
             /\ parse.out[k].scriptSegment =
                    FirstPresent(<<item.scriptSegment, item.korean_segment, item.text>>,
                                 MissingScript, <<>>)
             /\ parse.out[k].imagePrompt =
                    FirstPresent(<<item.image_prompt, item.imagePrompt>>, "", "")
             /\ parse.out[k].videoMotionPrompt =
                    FirstPresent(<<item.motion_prompt, item.videoMotionPrompt>>,
                                 DefaultMotion, "")

(***************************************************************************)
(* Properties of robustJsonParse (checked under SpecParse).                *)
(***************************************************************************)
\* the characters of t from its first `open` to its last `close`; none when there is
\* no such pair
Between(t, open, close) ==
    IF IndexOf(t, open) # 0 /\ IndexOf(t, open) <= LastIndexOf(t, close)
    THEN <<SubSeq(t, IndexOf(t, open), LastIndexOf(t, close))>>
    ELSE <<>>

\* the substring the re-parse reads: from the first '[' to the last ']' if an array
\* start exists and precedes any object start, else from the first '{' to the last '}'
SelectedSubstring(t) ==
    IF /\ IndexOf(t, "[") # 0
       /\ (IndexOf(t, "{") = 0 \/ IndexOf(t, "[") < IndexOf(t, "{"))
    THEN Between(t, "[", "]")
    ELSE Between(t, "{", "}")

\* C24: when the strict parse of a text fails, robustJsonParse returns the value of
\* the substring from the first '[' to the last ']' (array start first) or else from
\* the first '{' to the last '}'; when there is no such bracket pair or that
\* substring does not parse, it throws the malformed-response error and returns nothing.
BracketSelection ==
    (/\ parse.pc \in {"returned", "threw"}
     /\ parse.text # <<>>
     /\ JSONparse(trim(parse.text)).thrown # NULL) =>
        LET selected == SelectedSubstring(trim(RemoveFences(parse.text))) IN
        IF selected # <<>> /\ JSONparse(selected[1]).thrown = NULL
        THEN parse.pc = "returned" /\ parse.value = JSONparse(selected[1]).value
        ELSE parse.pc = "threw" /\ parse.thrown = MalformedError

(***************************************************************************)
(* Properties of the whole production step (checked under SpecProd).       *)
(***************************************************************************)
IdentityFields ==
    {"index", "originalScriptSegment", "prompt", "videoMotionPrompt", "isIntro"}

\* the media field and the pending flag of each capability
CapabilityFields ==
    [ image   |-> {"mediaUrl", "isProcessing"},
      upscale |-> {"mediaUrl", "isUpscaling"},
      video   |-> {"videoUrl", "isVideoProcessing"},
      audio   |-> {"audioUrl", "isAudioProcessing"} ]

\* the step leaves alone every field of every scene but the fields of `kind` on the
\* scenes whose index is in `scenes`
ChangesOnly(kind, scenes) ==
    \A k \in DOMAIN generatedMedia : \A f \in DOMAIN generatedMedia[k] :
        generatedMedia'[k][f] # generatedMedia[k][f] =>
            (f \in CapabilityFields[kind] /\ generatedMedia[k].index \in scenes)

\* C25: no operation of the production step changes the index, the text, the two
\* prompts or isIntro of a scene, nor adds, removes or reorders scenes; an operation
\* changes only the media field and the pending flag of its capability, a
\* single-scene operation only on its own scene.
ProductionKeepsIdentity ==
    [][/\ DOMAIN generatedMedia' = DOMAIN generatedMedia
       /\ \A k \in DOMAIN generatedMedia : \A f \in IdentityFields :
            generatedMedia'[k][f] = generatedMedia[k][f]
       /\ ImageBatchStep => ChangesOnly("image", Indices(generatedMedia))
       /\ TtsBatchStep => ChangesOnly("audio", Indices(generatedMedia))
       /\ UpscaleBatchStep => ChangesOnly("upscale", Indices(generatedMedia))
       /\ \A idx \in 1..MaxCards :
            /\ handleGenerateSingleImage(idx) => ChangesOnly("image", {idx})
            /\ handleUpscaleImage(idx) => ChangesOnly("upscale", {idx})
            /\ handleGenerateVideo(idx) => ChangesOnly("video", {idx})
            /\ handleGenerateTTS(idx) => ChangesOnly("audio", {idx})
       /\ SingleImageDone => ChangesOnly("image", {single.index})
       /\ \A ok \in BOOLEAN :
            /\ UpscaleImageDone(ok) => ChangesOnly("upscale", {ops.upscale.index})
            /\ VideoDone(ok) => ChangesOnly("video", {ops.video.index})
            /\ TtsSingleDone(ok) => ChangesOnly("audio", {ops.audio.index})
       /\ (ZipStep \/ DismissError) => generatedMedia' = generatedMedia]_vars

\* the image batch has run and a card's video operation after it: a scene holds the
\* image of the batch and a video
ProductionKeepsIdentityWitness ==
    /\ hist.batchRuns = 1
    /\ hist.finished >= 1
    /\ hist.settled.kind = "video"
    /\ hist.settled.ok
    /\ loadingType = "none"
    /\ \E k \in DOMAIN generatedMedia :
         /\ generatedMedia[k].mediaUrl # ""
         /\ generatedMedia[k].videoUrl # ""

(***************************************************************************)
(* Properties of the analyzer's batching (checked under SpecPlan).         *)
(***************************************************************************)
\* the texts of the b-th batch of `segments`: 4(b-1)+1 .. min(4b, n)
BatchTexts(segments, b) ==
    SubSeq(segments, batchSize * (b - 1) + 1,
           IF batchSize * b < Len(segments) THEN batchSize * b ELSE Len(segments))

\* C26: the analyzer sends the texts in consecutive batches of 4, the b-th call
\* carrying the texts 4(b-1)+1 .. min(4b, n) in order; a run that returns has issued
\* exactly ceil(n/4) calls; after each successful batch the progress callback fires
\* once with min(4b, n) of n, and it does not fire for the batch that failed.
AnalyzerBatching ==
    LET n == Len(hist.analyzed) IN
    /\ Len(hist.sent) <= CeilDiv(n, batchSize)
    /\ \A b \in DOMAIN hist.sent : hist.sent[b] = BatchTexts(hist.analyzed, b)
    /\ Len(hist.progress) = hist.okBatches
    /\ \A b \in DOMAIN hist.progress :
         hist.progress[b] =
            <<IF batchSize * b < n THEN batchSize * b ELSE n, n>>
    /\ plan.pc = "analyze" => Len(hist.sent) = Len(hist.progress) + 1
    /\ (plan.pc = "idle" /\ hist.planFailed) => Len(hist.sent) = Len(hist.progress) + 1
    /\ (plan.pc = "idle" /\ ~hist.planFailed) =>
          /\ Len(hist.sent) = CeilDiv(n, batchSize)
          /\ Len(hist.progress) = Len(hist.sent)

\* an analysis of more than 4 texts has returned after two calls and two reports
AnalyzerBatchingWitness ==
    /\ plan.pc = "idle"
    /\ ~hist.planFailed
    /\ Len(hist.analyzed) > batchSize
    /\ Len(hist.sent) = 2
    /\ hist.progress = <<<<batchSize, Len(hist.analyzed)>>,
                        <<Len(hist.analyzed), Len(hist.analyzed)>>>>
    /\ currentStep = 2

(***************************************************************************)
(* Properties of the video polling (checked under SpecVideoFair).          *)
(***************************************************************************)
\* the video operation of a card is in flight on a job that never reports done and
\* about which no call rejects
NeverDone == ops.video.pc = "gen" /\ job.pc # "idle" /\ job.fate = "never"

HandlerPc ==
    [ plan |-> plan.pc, prod |-> prod.pc, single |-> single.pc, tts |-> tts.pc,
      ups |-> ups.pc, zip |-> zip.pc, upscale |-> ops.upscale.pc,
      video |-> ops.video.pc, audio |-> ops.audio.pc ]

\* the handlers that are between their click and their last await
InFlight == {h \in DOMAIN HandlerPc : HandlerPc[h] \notin {"idle", "done"}}

PendingFlags == {"isProcessing", "isUpscaling", "isVideoProcessing", "isAudioProcessing"}

\* C28: in every state in which no operation is in flight, no scene has a pending
\* flag set (each operation that set a flag has cleared it when its call finished).
PendingFlagsReleased ==
    InFlight = {} =>
        \A k \in DOMAIN generatedMedia : \A f \in PendingFlags : ~generatedMedia[k][f]

\* C29: loadingType is 'none' only if no operation is in flight, also when a
\* single-scene operation and a batch overlap: an operation that finishes does not
\* reset loadingType to 'none' while another one is still running.
BusyIndicatorMatchesWork ==
    loadingType = "none" => InFlight = {}

====
